---- MODULE Spec2Model ----
(***************************************************************************)
(* Model of ga-synth: the genetic optimiser (GASimulation), the hill       *)
(* climber (HillClimbingSimulation) and the individuals they search over   *)
(* (SubtractiveIndividual, AdditiveIndividual and their components).       *)
(*                                                                         *)
(* Numbers.  f32 parameters are kept as integers in fixed units:           *)
(*   frequencies in Hz, amplitudes, phases and bands in hundredths,        *)
(*   fitness in units of 1/FitnessOne.  NaN is a distinguished value that  *)
(*   every comparison treats as unordered.                                 *)
(* Signals.  A rendered sample vector is kept as its sample count, whether *)
(*   it holds NaN samples, and its dominant frequency f0 (0 = silence).    *)
(* Randomness.  Every draw of the thread-local generator is a              *)
(*   nondeterministic choice from a finite grid of the legal range.        *)
(***************************************************************************)
EXTENDS Integers, Sequences, FiniteSets, TLC

-----------------------------------------------------------------------------
(* Bounds of the model *)

MaxInitPop == 4
MaxAdditions == 1
MaxGenerations == 3
MaxIterations == 4
MaxUnsuccessful == 2
MaxRunPop == 3
MaxSamples == 3
MaxSurvivors == 4

-----------------------------------------------------------------------------
(* Program constants *)

SAMPLE_RATE == 44100
SIGNAL_SAMPLES == 132300
OSC_MIN_FREQ == 20
OSC_MAX_FREQ == 10000
MIN_AMP == 0
MAX_AMP == 100
MIN_PHASE == 0
MAX_PHASE == 628
FILTER_MIN_FREQ == 0
FILTER_MAX_FREQ == 20000
MIN_BAND == 1
MAX_BAND == 400
HARM_MIN_FREQ == 20
HARM_MAX_FREQ == 10000
N_HARMONICS == 9
TEST_INITIAL_POPULATION == 100
FitnessOne == 100000
NaN == -1
NORMALISE_SAMPLES == 16384

-----------------------------------------------------------------------------
(* Small helpers *)

None == [some |-> FALSE]
Some(x) == [some |-> TRUE, val |-> x]

MinOf(a, b) == IF a < b THEN a ELSE b
MaxOf(a, b) == IF a > b THEN a ELSE b
AbsDiff(a, b) == IF a < b THEN b - a ELSE a - b

(* what a call comes to: Ok(value), or the panic that ended it *)
Ok(x) == [ok |-> TRUE, val |-> x]
Panic(msg) == [ok |-> FALSE, err |-> msg]

(* the float comparisons of the source: false whenever a NaN takes part *)
FloatGt(a, b) == a # NaN /\ b # NaN /\ a > b
FloatLt(a, b) == a # NaN /\ b # NaN /\ a < b

Range(s) == {s[i] : i \in 1..Len(s)}
Count(x, s) == Cardinality({i \in 1..Len(s) : s[i] = x})

-----------------------------------------------------------------------------
(* Grids: the values a random draw may take in the model *)

OscFreqGrid == {20, 5000}
AmpGrid == {50}
PhaseGrid == {0}
FilterFreqGrid == {0, 10000}
BandGrid == {100}
HarmFreqGrid == {20, 2449, 2450}
AttackGrid == {0}
DecayGrid == {0}
SustainGrid == {0}
ReleaseGrid == {0}

MutationRates == {0, 5, 100}

-----------------------------------------------------------------------------
(* utils.rs: random_weighted_average.  r is the mutation rate in percent;  *)
(* mutation and beta are uniform in [0,1): the mutation branch needs       *)
(* mutation < r, the blend branch mutation >= r.                           *)

Blend(v_self, v_other, grid) ==
  {g \in grid \cup {v_self, v_other} :
      MinOf(v_self, v_other) <= g /\ g <= MaxOf(v_self, v_other)}

RandomWeightedAverage(v_self, v_other, r, random_vals, grid) ==
  (IF r > 0 THEN random_vals ELSE {})
  \cup (IF r < 100 THEN Blend(v_self, v_other, grid) ELSE {})

(* hillclimbing.rs: evolve_value.  The step size is the rational           *)
(* step.num / step.den.  gen_range panics on an empty range.               *)
EvolveRangeEmpty(val, min_v, max_v, step) ==
  LET dist2 == (max_v - min_v) * step.num   \* 2 * dist * step.den
      lo2 == MaxOf(min_v * 2 * step.den, val * 2 * step.den - dist2)
      hi2 == MinOf(max_v * 2 * step.den, val * 2 * step.den + dist2)
  IN ~(lo2 < hi2)

EvolveValue(val, min_v, max_v, step, grid) ==
  LET dist2 == (max_v - min_v) * step.num
      lo2 == MaxOf(min_v * 2 * step.den, val * 2 * step.den - dist2)
      hi2 == MinOf(max_v * 2 * step.den, val * 2 * step.den + dist2)
  IN {g \in grid \cup {val} : lo2 <= g * 2 * step.den /\ g * 2 * step.den < hi2}

-----------------------------------------------------------------------------
(* components/oscillator.rs *)

OscCreate ==
  {[freq |-> f, sine_amp |-> a1, sine_phase |-> p1, square_amp |-> a2,
    square_phase |-> p2, saw_amp |-> a3, saw_phase |-> p3] :
      f \in OscFreqGrid, a1 \in AmpGrid, p1 \in PhaseGrid, a2 \in AmpGrid,
      p2 \in PhaseGrid, a3 \in AmpGrid, p3 \in PhaseGrid}

OscCombine(s, o, r) ==
  {Some([freq |-> f, sine_amp |-> a1, sine_phase |-> p1, square_amp |-> a2,
         square_phase |-> p2, saw_amp |-> a3, saw_phase |-> p3]) :
      f \in RandomWeightedAverage(s.freq, o.freq, r, OscFreqGrid, OscFreqGrid),
      a1 \in RandomWeightedAverage(s.sine_amp, o.sine_amp, r, AmpGrid, AmpGrid),
      p1 \in RandomWeightedAverage(s.sine_phase, o.sine_phase, r, PhaseGrid, PhaseGrid),
      a2 \in RandomWeightedAverage(s.square_amp, o.square_amp, r, AmpGrid, AmpGrid),
      p2 \in RandomWeightedAverage(s.square_phase, o.square_phase, r, PhaseGrid, PhaseGrid),
      a3 \in RandomWeightedAverage(s.saw_amp, o.saw_amp, r, AmpGrid, AmpGrid),
      p3 \in RandomWeightedAverage(s.saw_phase, o.saw_phase, r, PhaseGrid, PhaseGrid)}

OscEvolvePanics(s, step) ==
  \/ EvolveRangeEmpty(s.freq, OSC_MIN_FREQ, OSC_MAX_FREQ, step)
  \/ EvolveRangeEmpty(s.sine_amp, MIN_AMP, MAX_AMP, step)
  \/ EvolveRangeEmpty(s.sine_phase, MIN_PHASE, MAX_PHASE, step)
  \/ EvolveRangeEmpty(s.square_amp, MIN_AMP, MAX_AMP, step)
  \/ EvolveRangeEmpty(s.square_phase, MIN_PHASE, MAX_PHASE, step)
  \/ EvolveRangeEmpty(s.saw_amp, MIN_AMP, MAX_AMP, step)
  \/ EvolveRangeEmpty(s.saw_amp, MIN_PHASE, MAX_PHASE, step)

(* saw_phase is drawn around self.saw_amp, as the source has it *)
OscEvolve(s, step) ==
  {[freq |-> f, sine_amp |-> a1, sine_phase |-> p1, square_amp |-> a2,
    square_phase |-> p2, saw_amp |-> a3, saw_phase |-> p3] :
      f \in EvolveValue(s.freq, OSC_MIN_FREQ, OSC_MAX_FREQ, step, OscFreqGrid),
      a1 \in EvolveValue(s.sine_amp, MIN_AMP, MAX_AMP, step, AmpGrid),
      p1 \in EvolveValue(s.sine_phase, MIN_PHASE, MAX_PHASE, step, PhaseGrid),
      a2 \in EvolveValue(s.square_amp, MIN_AMP, MAX_AMP, step, AmpGrid),
      p2 \in EvolveValue(s.square_phase, MIN_PHASE, MAX_PHASE, step, PhaseGrid),
      a3 \in EvolveValue(s.saw_amp, MIN_AMP, MAX_AMP, step, AmpGrid),
      p3 \in EvolveValue(s.saw_amp, MIN_PHASE, MAX_PHASE, step, PhaseGrid)}

-----------------------------------------------------------------------------
(* components/envelope.rs *)

EnvCreate ==
  {[attack |-> a, decay |-> d, sustain |-> s, release |-> rl] :
      a \in AttackGrid, d \in DecayGrid, s \in SustainGrid, rl \in ReleaseGrid}

EnvCombine(s, o, r) ==
  {Some([attack |-> a, decay |-> d, sustain |-> su, release |-> rl]) :
      a \in RandomWeightedAverage(s.attack, o.attack, r, AttackGrid, AttackGrid),
      d \in RandomWeightedAverage(s.decay, o.decay, r, DecayGrid, DecayGrid),
      su \in RandomWeightedAverage(s.sustain, o.sustain, r, SustainGrid, SustainGrid),
      rl \in RandomWeightedAverage(s.release, o.release, r, ReleaseGrid, ReleaseGrid)}

(* evolve is todo!(): it panics whenever it is called *)
EnvEvolvePanics(s, step) == TRUE
EnvEvolve(s, step) == {}

-----------------------------------------------------------------------------
(* components/filters.rs *)

IsBand(f) == f.type \in {"BandPass", "BandReject"}

(* band edges kept in the order they were drawn *)
OrderedPairMutant(freq_1, freq_2) == <<freq_1, freq_2>>

OrderedPair(freq_1, freq_2) ==
  IF freq_1 < freq_2 THEN <<freq_1, freq_2>> ELSE <<freq_2, freq_1>>

MakeBand(type, freq_1, freq_2, b) ==
  [type |-> type, low_freq |-> OrderedPair(freq_1, freq_2)[1],
   high_freq |-> OrderedPair(freq_1, freq_2)[2], band |-> b]

FilterCreate(filter_type) ==
  IF filter_type \in {"LowPass", "HighPass"}
  THEN {[type |-> filter_type, cutoff_freq |-> c, band |-> b] :
           c \in FilterFreqGrid, b \in BandGrid}
  ELSE {MakeBand(filter_type, f1, f2, b) :
           f1 \in FilterFreqGrid, f2 \in FilterFreqGrid, b \in BandGrid}

FilterCombine(s, o, r) ==
  IF s.type # o.type THEN {None}
  ELSE IF IsBand(s)
  THEN {Some(MakeBand(s.type, f1, f2, b)) :
           f1 \in RandomWeightedAverage(s.low_freq, o.low_freq, r, FilterFreqGrid, FilterFreqGrid),
           f2 \in RandomWeightedAverage(s.high_freq, o.high_freq, r, FilterFreqGrid, FilterFreqGrid),
           b \in RandomWeightedAverage(s.band, o.band, r, BandGrid, BandGrid)}
  ELSE {Some([type |-> s.type, cutoff_freq |-> c, band |-> b]) :
           c \in RandomWeightedAverage(s.cutoff_freq, o.cutoff_freq, r, FilterFreqGrid, FilterFreqGrid),
           b \in RandomWeightedAverage(s.band, o.band, r, BandGrid, BandGrid)}

FilterEvolvePanics(s, step) ==
  \/ EvolveRangeEmpty(s.band, MIN_BAND, MAX_BAND, step)
  \/ IF IsBand(s)
     THEN \/ EvolveRangeEmpty(s.low_freq, FILTER_MIN_FREQ, FILTER_MAX_FREQ, step)
          \/ EvolveRangeEmpty(s.high_freq, FILTER_MIN_FREQ, FILTER_MAX_FREQ, step)
     ELSE EvolveRangeEmpty(s.cutoff_freq, FILTER_MIN_FREQ, FILTER_MAX_FREQ, step)

FilterEvolve(s, step) ==
  IF IsBand(s)
  THEN {MakeBand(s.type, f1, f2, b) :
           f1 \in EvolveValue(s.low_freq, FILTER_MIN_FREQ, FILTER_MAX_FREQ, step, FilterFreqGrid),
           f2 \in EvolveValue(s.high_freq, FILTER_MIN_FREQ, FILTER_MAX_FREQ, step, FilterFreqGrid),
           b \in EvolveValue(s.band, MIN_BAND, MAX_BAND, step, BandGrid)}
  ELSE {[type |-> s.type, cutoff_freq |-> c, band |-> b] :
           c \in EvolveValue(s.cutoff_freq, FILTER_MIN_FREQ, FILTER_MAX_FREQ, step, FilterFreqGrid),
           b \in EvolveValue(s.band, MIN_BAND, MAX_BAND, step, BandGrid)}

-----------------------------------------------------------------------------
(* components/harmonics.rs *)

HarmCreate ==
  {[freq |-> f, amplitudes |-> a] :
      f \in HarmFreqGrid, a \in [1..N_HARMONICS -> AmpGrid]}

HarmCombine(s, o, r) ==
  LET n == MinOf(Len(s.amplitudes), Len(o.amplitudes))
  IN {Some([freq |-> f, amplitudes |-> a]) :
         f \in RandomWeightedAverage(s.freq, o.freq, r, HarmFreqGrid, HarmFreqGrid),
         a \in {v \in [1..n -> AmpGrid \cup Range(s.amplitudes) \cup Range(o.amplitudes)] :
                  \A i \in 1..n :
                     v[i] \in RandomWeightedAverage(s.amplitudes[i], o.amplitudes[i],
                                                   r, AmpGrid, AmpGrid)}}

HarmEvolvePanics(s, step) ==
  \/ EvolveRangeEmpty(s.freq, HARM_MIN_FREQ, HARM_MAX_FREQ, step)
  \/ \E i \in 1..Len(s.amplitudes) :
        EvolveRangeEmpty(s.amplitudes[i], MIN_AMP, MAX_AMP, step)

HarmEvolve(s, step) ==
  {[freq |-> f, amplitudes |-> a] :
      f \in EvolveValue(s.freq, HARM_MIN_FREQ, HARM_MAX_FREQ, step, HarmFreqGrid),
      a \in {v \in [1..Len(s.amplitudes) -> AmpGrid \cup Range(s.amplitudes)] :
               \A i \in 1..Len(s.amplitudes) :
                  v[i] \in EvolveValue(s.amplitudes[i], MIN_AMP, MAX_AMP, step, AmpGrid)}}

-----------------------------------------------------------------------------
(* signal_processing: rendering.  A Signal is [len, nan, f0]. *)

SignalDefault == [len |-> 0, nan |-> FALSE, f0 |-> 0]
SignalInit == [len |-> SIGNAL_SAMPLES, nan |-> FALSE, f0 |-> 0]

ApplyOscillator(sig, osc) ==
  [len |-> SIGNAL_SAMPLES, nan |-> FALSE,
   f0 |-> IF osc.sine_amp = 0 /\ osc.square_amp = 0 /\ osc.saw_amp = 0
          THEN 0 ELSE osc.freq]

(* envelope shaping changes the loudness over time, not the sample count  *)
(* nor the dominant frequency                                             *)
ApplyEnvelope(sig, env) == [sig EXCEPT !.f0 = IF sig.len = 0 THEN 0 ELSE sig.f0]

ApplyHarmonics(sig, har) ==
  [sig EXCEPT !.f0 = IF \A i \in 1..Len(har.amplitudes) : har.amplitudes[i] = 0
                     THEN sig.f0 ELSE har.freq]

(* low_pass_filter: n = ceil(4 / band), made even *)
FilterTaps(band) ==
  LET n == (4 * 100 + band - 1) \div band
  IN IF n % 2 = 1 THEN n + 1 ELSE n

(* sinc(2 * cutoff * x) is 0/0 at cutoff 0: every tap is NaN *)
LowPassKernelIsNaN(cutoff_freq) == cutoff_freq = 0

KernelIsNaN(f) ==
  IF IsBand(f)
  THEN LowPassKernelIsNaN(f.low_freq) \/ LowPassKernelIsNaN(f.high_freq)
  ELSE LowPassKernelIsNaN(f.cutoff_freq)

KernelLen(f) ==
  IF f.type = "BandReject"
  THEN FilterTaps(f.band) - 1 + FilterTaps(f.band) \div 2
  ELSE FilterTaps(f.band)

(* utils::convolve: one output per i in -(k/2) .. len-2 *)
ConvolveLen(kernel_len, input_len) == MaxOf(0, input_len - 1 + kernel_len \div 2)

FilterPasses(f, f0) ==
  CASE f.type = "LowPass" -> f0 <= f.cutoff_freq
    [] f.type = "HighPass" -> f0 >= f.cutoff_freq
    [] f.type = "BandPass" -> f.low_freq <= f0 /\ f0 <= f.high_freq
    [] f.type = "BandReject" -> f0 <= f.low_freq \/ f0 >= f.high_freq

(* band_pass_filter / band_reject_filter: assert!(low_freq <= high_freq) *)
ApplyFilterPanics(f) == IsBand(f) /\ ~(f.low_freq <= f.high_freq)

ApplyFilter(sig, f) ==
  [len |-> ConvolveLen(KernelLen(f), sig.len),
   nan |-> sig.nan \/ (KernelIsNaN(f) /\ sig.len > 0),
   f0 |-> IF sig.len > 0 /\ FilterPasses(f, sig.f0) THEN sig.f0 ELSE 0]

-----------------------------------------------------------------------------
(* signal_analysis.rs: the two metrics.  An error is kept as its class:    *)
(* 0 for no difference, 1 for an error of 1000 (mse) or 500 (distance),    *)
(* 2 for ten times that; NaN when a NaN sample takes part.                 *)

ErrorClass(a, b) ==
  IF a = b THEN 0
  ELSE IF a # 0 /\ b # 0 /\ AbsDiff(a, b) <= 5000 THEN 1 ELSE 2

(* samples_fft_to_spectrum refuses NaN samples: freq_spectrum returns Err *)
FreqSpectrumMse(sig, other) ==
  IF (sig.nan /\ sig.len > 0) \/ (other.nan /\ other.len > 0)
  THEN Panic("MSE should be valid")
  ELSE Ok(ErrorClass(IF sig.len = 0 THEN 0 ELSE sig.f0,
                     IF other.len = 0 THEN 0 ELSE other.f0))

(* zip stops at the shorter signal *)
EuclideanDistance(sig, other) ==
  IF MinOf(sig.len, other.len) = 0 THEN 0
  ELSE IF sig.nan \/ other.nan THEN NaN
  ELSE ErrorClass(sig.f0, other.f0)

(* 2 * sigmoid(-exp(log10(e / scale))): e = 0 gives cost exp(-inf) = 0 and *)
(* fitness 1; e = scale gives cost 1; e = 10 * scale gives cost exp(1).    *)
FitnessOfError(class) ==
  CASE class = NaN -> NaN
    [] class = 0 -> FitnessOne
    [] class = 1 -> 53788
    [] class = 2 -> 12381

-----------------------------------------------------------------------------
(* synthesis_methods: individuals *)

ToSignalPanics(ind) == ind.filter.some /\ ApplyFilterPanics(ind.filter.val)

ToSignal(ind) ==
  IF ind.method = "additive"
  THEN IF ind.harmonics.some THEN ApplyHarmonics(SignalInit, ind.harmonics.val)
       ELSE SignalInit
  ELSE LET s1 == IF ind.oscillator.some
                 THEN ApplyOscillator(SignalDefault, ind.oscillator.val)
                 ELSE SignalDefault
           s2 == IF ind.envelope.some THEN ApplyEnvelope(s1, ind.envelope.val) ELSE s1
       IN IF ind.filter.some THEN ApplyFilter(s2, ind.filter.val) ELSE s2

FreqDomainMseFitness(ind) ==
  IF ToSignalPanics(ind) THEN Panic("assertion failed: low_freq <= high_freq")
  ELSE LET mse == FreqSpectrumMse(ToSignal(ind), ind.target)
       IN IF mse.ok THEN Ok(FitnessOfError(mse.val)) ELSE mse

TimeDomainEuclideanFitness(ind) ==
  IF ToSignalPanics(ind) THEN Panic("assertion failed: low_freq <= high_freq")
  ELSE Ok(FitnessOfError(EuclideanDistance(ToSignal(ind), ind.target)))

CalculateFitness(ind) ==
  IF ind.fitness_type = "FreqDomainMSE"
  THEN FreqDomainMseFitness(ind)
  ELSE TimeDomainEuclideanFitness(ind)

(* a validity test that lets a partial sit exactly on the Nyquist frequency *)
HarmonicsAreValidMutant(ind) ==
  IF ind.harmonics.some
  THEN \A i \in 1..Len(ind.harmonics.val.amplitudes) :
          2 * (ind.harmonics.val.freq * i) <= SAMPLE_RATE
  ELSE TRUE

HarmonicsAreValid(ind) ==
  IF ind.harmonics.some
  THEN \A i \in 1..Len(ind.harmonics.val.amplitudes) :
          2 * (ind.harmonics.val.freq * i) < SAMPLE_RATE
  ELSE TRUE

(* an include_fitness that returns the individual without caching *)
IncludeFitnessMutant(ind) == Ok(ind)

(* include_fitness: Ok(individual with the fitness cached) or a panic *)
IncludeFitness(ind) ==
  IF ind.method = "additive" /\ ~HarmonicsAreValid(ind)
  THEN Ok([ind EXCEPT !.fitness = Some(0)])
  ELSE LET f == CalculateFitness(ind)
       IN IF f.ok THEN Ok([ind EXCEPT !.fitness = Some(f.val)]) ELSE f

(* fitness(): the cached value when there is one *)
Fitness(ind) ==
  IF ind.fitness.some THEN ind.fitness.val
  ELSE IF ind.method = "additive" /\ ~HarmonicsAreValid(ind) THEN 0
  ELSE IF CalculateFitness(ind).ok THEN CalculateFitness(ind).val ELSE NaN

(* Ord::cmp: self.fitness().partial_cmp(&other.fitness())                 *)
(*              .expect("No fitness value should be NaN.")                 *)
Cmp(a, b) ==
  IF Fitness(a) = NaN \/ Fitness(b) = NaN
  THEN Panic("No fitness value should be NaN.")
  ELSE Ok(IF Fitness(a) < Fitness(b) THEN "Less"
          ELSE IF Fitness(a) > Fitness(b) THEN "Greater" ELSE "Equal")

GetFundamental(ind) ==
  IF ind.method = "additive"
  THEN IF ind.harmonics.some THEN Some(ind.harmonics.val.freq) ELSE None
  ELSE IF ind.oscillator.some THEN Some(ind.oscillator.val.freq) ELSE None

MakeIndividual(method, target, fitness_type, osc, env, fil, har) ==
  [method |-> method, target |-> target, fitness_type |-> fitness_type,
   fitness |-> None, oscillator |-> osc, envelope |-> env, filter |-> fil,
   harmonics |-> har]

OptCreate(enabled, created) == IF enabled THEN {Some(c) : c \in created} ELSE {None}

(* IndividualGenerator::generate *)
Generate(gen) ==
  IF ~gen.target.some
  THEN {Panic(IF gen.method = "additive"
              THEN "Expected target in AdditiveIndividualGenerator"
              ELSE "Expected target in SubtractiveIndividualGenerator")}
  ELSE IF gen.method = "additive"
  THEN {IncludeFitness(MakeIndividual("additive", gen.target.val, gen.fitness_type,
                                      None, None, None, h)) :
           h \in OptCreate(gen.harmonics, HarmCreate)}
  ELSE {IncludeFitness(MakeIndividual("subtractive", gen.target.val, gen.fitness_type,
                                      o, e, f, None)) :
           o \in OptCreate(gen.oscillator, OscCreate),
           e \in OptCreate(gen.envelope, EnvCreate),
           f \in IF gen.filter.some
                 THEN {Some(c) : c \in FilterCreate(gen.filter.val)} ELSE {None}}

(* a crossover that drops the oscillator *)
OscGeneMutant(a, b, r) == {None}

OscGene(a, b, r) ==
  IF a.oscillator.some /\ b.oscillator.some
  THEN OscCombine(a.oscillator.val, b.oscillator.val, r) ELSE {None}

EnvGene(a, b, r) ==
  IF a.envelope.some /\ b.envelope.some
  THEN EnvCombine(a.envelope.val, b.envelope.val, r) ELSE {None}

FilterGene(a, b, r) ==
  IF a.filter.some /\ b.filter.some
  THEN FilterCombine(a.filter.val, b.filter.val, r) ELSE {None}

HarmGene(a, b, r) ==
  IF a.harmonics.some /\ b.harmonics.some
  THEN HarmCombine(a.harmonics.val, b.harmonics.val, r) ELSE {None}

(* Option<Self> of a crossover whose fitness evaluation returned *)
WrapOffspring(scored) == IF scored.ok THEN Ok(Some(scored.val)) ELSE scored

(* Individual::crossover: the outcomes of self.crossover(other, r) *)
Crossover(self, other, r) ==
  IF self.method = "additive"
  THEN {WrapOffspring(IncludeFitness(
            MakeIndividual("additive", self.target, self.fitness_type,
                           None, None, None, h))) :
           h \in HarmGene(self, other, r)}
  ELSE {WrapOffspring(IncludeFitness(
            MakeIndividual("subtractive", self.target, self.fitness_type,
                           o, e, f, None))) :
           o \in OscGene(self, other, r), e \in EnvGene(self, other, r),
           f \in FilterGene(self, other, r)}

EvolvePanics(ind, step) ==
  \/ ind.oscillator.some /\ OscEvolvePanics(ind.oscillator.val, step)
  \/ ind.envelope.some /\ EnvEvolvePanics(ind.envelope.val, step)
  \/ ind.filter.some /\ FilterEvolvePanics(ind.filter.val, step)
  \/ ind.harmonics.some /\ HarmEvolvePanics(ind.harmonics.val, step)

OptEvolve(gene, evolved) == IF gene.some THEN {Some(c) : c \in evolved} ELSE {None}

(* Individual::evolve: the outcomes of self.evolve(step_size) *)
Evolve(ind, step) ==
  IF EvolvePanics(ind, step) THEN {Panic("evolve panicked")}
  ELSE IF ind.method = "additive"
  THEN {IncludeFitness(MakeIndividual("additive", ind.target, ind.fitness_type,
                                      None, None, None, h)) :
           h \in OptEvolve(ind.harmonics,
                           IF ind.harmonics.some
                           THEN HarmEvolve(ind.harmonics.val, step) ELSE {})}
  ELSE {IncludeFitness(MakeIndividual("subtractive", ind.target, ind.fitness_type,
                                      o, e, f, None)) :
           o \in OptEvolve(ind.oscillator,
                           IF ind.oscillator.some
                           THEN OscEvolve(ind.oscillator.val, step) ELSE {}),
           e \in OptEvolve(ind.envelope,
                           IF ind.envelope.some
                           THEN EnvEvolve(ind.envelope.val, step) ELSE {}),
           f \in OptEvolve(ind.filter,
                           IF ind.filter.some
                           THEN FilterEvolve(ind.filter.val, step) ELSE {})}

-----------------------------------------------------------------------------
(* State *)

VARIABLES
  ga,      \* the GASimulation: its fields, and panic (the message of the panic that ended it)
  hc,      \* the HillClimbingSimulation and the locals of its run()
  bench    \* individuals handled directly: two parents and the result of the last operation

vars == <<ga, hc, bench>>

-----------------------------------------------------------------------------
(* Targets and generators *)

EmptyTarget == SignalDefault
Tone(f) == [len |-> SIGNAL_SAMPLES, nan |-> FALSE, f0 |-> f]

SubtractiveGenerator(target, fitness_type, osc, env, fil) ==
  [method |-> "subtractive", target |-> target, fitness_type |-> fitness_type,
   oscillator |-> osc, envelope |-> env, filter |-> fil, harmonics |-> FALSE]

AdditiveGenerator(target, fitness_type, har) ==
  [method |-> "additive", target |-> target, fitness_type |-> fitness_type,
   oscillator |-> FALSE, envelope |-> FALSE, filter |-> None, harmonics |-> har]

(* IndividualGenerator::get_target *)
GetTarget(gen) ==
  IF gen.target.some THEN Ok(gen.target.val)
  ELSE Panic("The generator should have a target set.")

-----------------------------------------------------------------------------
(* genetic.rs: sorting, shuffling, pairing *)

(* Ord::cmp: partial_cmp(...).expect("No fitness value should be NaN.");   *)
(* a sort of two or more elements compares every element at least once    *)
SortPanics(s) ==
  Len(s) >= 2 /\ \E i \in 1..Len(s) : \E j \in 1..Len(s) : i # j /\ ~Cmp(s[i], s[j]).ok

RECURSIVE SortDescLevels(_, _)
SortDescLevels(s, levels) ==
  IF levels = {} THEN <<>>
  ELSE LET top == CHOOSE v \in levels : \A w \in levels : w <= v
       IN SelectSeq(s, LAMBDA x : Fitness(x) = top)
          \o SortDescLevels(s, levels \ {top})

(* a sort that leaves the order as it found it *)
SortDescMutant(s) == s

(* sort_by(|a, b| b.cmp(a)): stable, descending by fitness: the fittest    *)
(* come first, the equally fit in the order they stood in                  *)
SortDesc(s) == SortDescLevels(s, {Fitness(s[i]) : i \in 1..Len(s)})

(* shuffle: every rearrangement of s *)
Shuffle(s) ==
  {t \in [1..Len(s) -> Range(s)] : \A x \in Range(s) : Count(x, t) = Count(x, s)}

(* chunks(2) that pairs an odd last survivor with itself *)
PairsMutant(s) ==
  [i \in 1..((Len(s) + 1) \div 2) |->
      <<s[2 * i - 1], s[IF 2 * i <= Len(s) THEN 2 * i ELSE 2 * i - 1]>>]

(* chunks(2), keeping the chunks of length 2 *)
Pairs(s) == [i \in 1..(Len(s) \div 2) |-> <<s[2 * i - 1], s[2 * i]>>]

(* the crossover outcome of every pair of one pass *)
PassCrossovers(shuffled, r) ==
  LET pairs == Pairs(shuffled)
      all == UNION {Crossover(pairs[i][1], pairs[i][2], r) : i \in 1..Len(pairs)}
  IN {c \in [1..Len(pairs) -> all] :
         \A i \in 1..Len(pairs) : c[i] \in Crossover(pairs[i][1], pairs[i][2], r)}

Pushed(c) == LET kept == SelectSeq(c, LAMBDA x : x.ok /\ x.val.some)
             IN [i \in 1..Len(kept) |-> kept[i].val.val]

(* what one pass pushes into the offspring pool: the workers push in any order *)
PassPushes(shuffled, r) ==
  UNION {IF \E i \in 1..Len(c) : ~c[i].ok
         THEN {Panic("crossover panicked")}
         ELSE {Ok(o) : o \in Shuffle(Pushed(c))} :
            c \in PassCrossovers(shuffled, r)}

(* init_population *)
InitPopulation(n, generator) ==
  {IF \E i \in 1..n : ~g[i].ok THEN Panic("generate panicked")
   ELSE IF SortPanics([i \in 1..n |-> g[i].val])
        THEN Panic("No fitness value should be NaN.")
        ELSE Ok(SortDesc([i \in 1..n |-> g[i].val])) :
      g \in [1..n -> Generate(generator)]}

(* next(), lines 187-193: the population with the random additions, sorted *)
CurrentPopulation(sim) ==
  {IF \E i \in 1..sim.n_random_additions : ~g[i].ok THEN Panic("generate panicked")
   ELSE LET cur == sim.population \o [i \in 1..sim.n_random_additions |-> g[i].val]
        IN IF SortPanics(cur) THEN Panic("No fitness value should be NaN.")
           ELSE Ok(SortDesc(cur)) :
      g \in [1..sim.n_random_additions -> Generate(sim.generator)]}

(* next(), lines 196-199 *)
NSelected(sim, current_population) ==
  IF sim.population_evolution = "Constant"
  THEN sim.initial_population \div 2
  ELSE Len(current_population) \div 2

(* a step that keeps the offspring only and drops the survivors *)
FinishMutant(sim, new_population, offspring) ==
  IF SortPanics(offspring)
  THEN [sim EXCEPT !.offspring = Len(offspring),
                   !.panic = "No fitness value should be NaN."]
  ELSE IF offspring = <<>>
  THEN [sim EXCEPT !.population = <<>>,
                   !.offspring = Len(offspring),
                   !.panic = "There should be a fittest individual in the population"]
  ELSE [sim EXCEPT !.population = SortDesc(offspring),
                   !.offspring = Len(offspring),
                   !.fundamental = GetFundamental(SortDesc(offspring)[1]),
                   !.generation = sim.generation + 1]

(* next(), lines 219-242: join, sort, store, take the fittest *)
Finish(sim, new_population, offspring) ==
  LET joined == new_population \o offspring
  IN IF SortPanics(joined)
     THEN [sim EXCEPT !.offspring = Len(offspring),
                      !.panic = "No fitness value should be NaN."]
     ELSE IF joined = <<>>
     THEN [sim EXCEPT !.population = <<>>,
                      !.offspring = Len(offspring),
                      !.panic = "There should be a fittest individual in the population"]
     ELSE [sim EXCEPT !.population = SortDesc(joined),
                      !.offspring = Len(offspring),
                      !.fundamental = GetFundamental(SortDesc(joined)[1]),
                      !.generation = sim.generation + 1]

(* a next() that makes one shuffle-and-pair pass only *)
BreedMutant(sim, selected) ==
  UNION {
    {IF ~o1.ok THEN [sim EXCEPT !.panic = "crossover panicked"]
     ELSE Finish(sim, sh, o1.val) : o1 \in PassPushes(sh, sim.mutation_rate)} :
    sh \in Shuffle(selected)}

(* next(), lines 202-217: the two shuffle-and-pair passes over the survivors *)
Breed(sim, selected) ==
  LET first == UNION {PassPushes(sh, sim.mutation_rate) : sh \in Shuffle(selected)}
  IN UNION {
       {IF ~o1.ok \/ ~o2.ok THEN [sim EXCEPT !.panic = "crossover panicked"]
        ELSE Finish(sim, sh2, o1.val \o o2.val) :
           o1 \in first, o2 \in PassPushes(sh2, sim.mutation_rate)} :
       sh2 \in Shuffle(selected)}

(* a next() that keeps the last n_selected of the sorted pool *)
NextOutcomesMutant(sim) ==
  UNION {
    IF ~cur.ok THEN {[sim EXCEPT !.panic = cur.err]}
    ELSE IF NSelected(sim, cur.val) > Len(cur.val)
    THEN {[sim EXCEPT !.panic = "range end index out of range"]}
    ELSE Breed(sim, SubSeq(cur.val, Len(cur.val) - NSelected(sim, cur.val) + 1,
                           Len(cur.val))) :
       cur \in CurrentPopulation(sim)}

(* GASimulation::next: every state it can leave the simulation in *)
NextOutcomes(sim) ==
  UNION {
    IF ~cur.ok THEN {[sim EXCEPT !.panic = cur.err]}
    ELSE IF NSelected(sim, cur.val) > Len(cur.val)
    THEN {[sim EXCEPT !.panic = "range end index out of range"]}
    ELSE Breed(sim, SubSeq(cur.val, 1, NSelected(sim, cur.val))) :
       cur \in CurrentPopulation(sim)}

-----------------------------------------------------------------------------
(* The genetic simulation *)

GAGenerators ==
  { SubtractiveGenerator(Some(EmptyTarget), "FreqDomainMSE", FALSE, FALSE, None),
    SubtractiveGenerator(Some(Tone(5000)), "FreqDomainMSE", TRUE, FALSE, None),
    SubtractiveGenerator(Some(Tone(5000)), "TimeDomainEuclidean", TRUE, FALSE, Some("LowPass")),
    AdditiveGenerator(Some(Tone(20)), "FreqDomainMSE", TRUE) }

(* the sizes the model builds: every small one, and those of the tests of *)
(* genetic.rs with a generator whose individuals are all alike            *)
GASizes(generator) ==
  ((0..MaxInitPop) \X (0..MaxAdditions))
  \cup (IF generator = SubtractiveGenerator(Some(EmptyTarget), "FreqDomainMSE",
                                            FALSE, FALSE, None)
        THEN {TEST_INITIAL_POPULATION} \X {3, 4} ELSE {})

(* GASimulationBuilder::build after generator(g) and the setters *)
GABuild(generator, initial_population, n_random_additions, population_evolution, mutation_rate) ==
  {[generation |-> 0,
    mutation_rate |-> mutation_rate,
    max_generations |-> MaxGenerations,
    population |-> IF pop.ok THEN pop.val ELSE <<>>,
    target |-> GetTarget(generator).val,
    n_random_additions |-> n_random_additions,
    initial_population |-> initial_population,
    population_evolution |-> population_evolution,
    offspring |-> 0,
    fundamental |-> None,
    generator |-> generator,
    panic |-> IF pop.ok THEN "" ELSE pop.err] :
      pop \in InitPopulation(initial_population, generator)}

GAIdle == [panic |-> "not built"]
HCIdle == [panic |-> "not built"]
BenchIdle == [op |-> "idle", self |-> None, other |-> None, out |-> Ok(None)]

GAInit ==
  /\ ga \in UNION {UNION {GABuild(g, sz[1], sz[2], mode, 5) :
                              sz \in GASizes(g), mode \in {"Constant", "Increasing"}} :
                     g \in GAGenerators}
  /\ hc = HCIdle
  /\ bench = BenchIdle

(* one call of next() on a simulation that has not panicked *)
GANext ==
  /\ ga.panic = ""
  /\ ga.generation < MaxGenerations
  /\ ga' \in NextOutcomes(ga)
  /\ UNCHANGED <<hc, bench>>

Next == GANext

Spec == GAInit /\ [][Next]_vars

-----------------------------------------------------------------------------
(* Properties of the genetic simulation *)

GABuilt == ga.panic # "not built"

(* C1: in Constant mode the population size equals the initial population  *)
(* size N after every step, for every N and every n_random_additions.      *)
C1_ConstantSize ==
  (GABuilt /\ ga.panic = "" /\ ga.population_evolution = "Constant")
     => Len(ga.population) = ga.initial_population

(* C1, where it fails: a completed Constant step from N = 2 leaves one     *)
(* individual (one survivor, no pair to breed)                             *)
C1_Witness ==
  /\ GABuilt /\ ga.panic = "" /\ ga.population_evolution = "Constant"
  /\ ga.generation >= 1
  /\ ga.initial_population = 2
  /\ Len(ga.population) = 1

(* C2: a completed Increasing step from p individuals with n random        *)
(* additions keeps (p + n) div 2 survivors and adds 2 * (survivors div 2)  *)
(* offspring.                                                              *)
C2_Step ==
  (/\ GABuilt /\ ga.panic = "" /\ ga.population_evolution = "Increasing"
   /\ ga'.generation = ga.generation + 1)
     => LET survivors == (Len(ga.population) + ga.n_random_additions) \div 2
        IN /\ ga'.offspring = 2 * (survivors \div 2)
           /\ Len(ga'.population) = survivors + 2 * (survivors \div 2)

(* C2: from 100 individuals the sizes after steps 1, 2, 3 are 104, 108,    *)
(* 112 with 4 random additions and 101, 104, 105 with 3.                   *)
C2_Sizes ==
  (/\ GABuilt /\ ga.panic = "" /\ ga.population_evolution = "Increasing"
   /\ ga.initial_population = TEST_INITIAL_POPULATION
   /\ ga.generation \in 0..3)
     => /\ ga.n_random_additions = 4
             => Len(ga.population) = <<100, 104, 108, 112>>[ga.generation + 1]
        /\ ga.n_random_additions = 3
             => Len(ga.population) = <<100, 101, 104, 105>>[ga.generation + 1]

(* C2: the Increasing step keeps floor((p+n)/2) survivors and adds         *)
(* 2*floor(survivors/2) offspring; from 100 the sizes are 104, 108, 112    *)
(* (n = 4) and 101, 104, 105 (n = 3).                                      *)
C2_Theorem == []C2_Sizes /\ [][C2_Step]_vars

C2_Witness ==
  /\ GABuilt /\ ga.panic = "" /\ ga.population_evolution = "Increasing"
  /\ ga.initial_population = TEST_INITIAL_POPULATION
  /\ ga.n_random_additions = 3
  /\ ga.generation = 3
  /\ Len(ga.population) = 105
  /\ ga.offspring = 52

SortedDescending(population) ==
  \A i \in 1..Len(population) : \A j \in 1..Len(population) :
     i < j => ~FloatLt(Fitness(population[i]), Fitness(population[j]))

(* C3: the population is sorted in descending order of fitness after       *)
(* build() and at the end of every step, so population[0] is an individual *)
(* of maximal fitness.                                                     *)
C3_Theorem ==
  GABuilt =>
     /\ SortedDescending(ga.population)
     /\ \A i \in 1..Len(ga.population) :
           ~FloatGt(Fitness(ga.population[i]), Fitness(ga.population[1]))

C3_Witness ==
  /\ GABuilt /\ ga.panic = "" /\ ga.generation >= 1
  /\ ga.offspring >= 2
  /\ \E i \in 1..Len(ga.population) :
        FloatGt(Fitness(ga.population[1]), Fitness(ga.population[i]))

-----------------------------------------------------------------------------
(* The hill climber.  A step size is the rational num / den; the locals    *)
(* step_size and unsuccessful_iters of run() are kept beside the fields.   *)

StepSize(n, d) == [num |-> n, den |-> d]

(* step_size < min_step_size *)
StepLt(a, b) == a.num * b.den < b.num * a.den

(* a step size that is halved on acceptance *)
GrowStepHalvesMutant(step) == StepSize(step.num, step.den * 2)

(* a step size that shrinks on acceptance: step_size *= 0.95 *)
GrowStepMutant(step) == StepSize(step.num * 19, step.den * 20)

(* step_size /= 0.95 *)
GrowStep(step) == StepSize(step.num * 20, step.den * 19)

(* an acceptance of the candidates that are less fit *)
AcceptsWorseMutant(candidate, current) ==
  FloatLt(Fitness(candidate), Fitness(current))

(* an acceptance test that also takes a candidate no worse than the current *)
AcceptsMutant(candidate, current) ==
  /\ Fitness(candidate) # NaN /\ Fitness(current) # NaN
  /\ Fitness(candidate) >= Fitness(current)

(* candidate.fitness() > self.current_individual.fitness() *)
Accepts(candidate, current) == FloatGt(Fitness(candidate), Fitness(current))

(* a loop test that forgets the minimum step size *)
ShouldStopMutant(sim) ==
  \/ ~(sim.iteration < sim.max_iterations)
  \/ sim.unsuccessful_iters >= sim.max_unsuccessful_iters

(* run(), lines 151-161: the loop condition and the two breaks *)
ShouldStop(sim) ==
  \/ ~(sim.iteration < sim.max_iterations)
  \/ StepLt(sim.step_size, sim.min_step_size)
  \/ sim.unsuccessful_iters >= sim.max_unsuccessful_iters

HCGenerators ==
  { SubtractiveGenerator(Some(EmptyTarget), "FreqDomainMSE", FALSE, FALSE, None),
    SubtractiveGenerator(Some(Tone(5000)), "FreqDomainMSE", TRUE, FALSE, None),
    SubtractiveGenerator(Some(Tone(5000)), "TimeDomainEuclidean", TRUE, FALSE, Some("LowPass")),
    SubtractiveGenerator(Some(Tone(5000)), "FreqDomainMSE", TRUE, FALSE, Some("HighPass")),
    SubtractiveGenerator(Some(Tone(5000)), "TimeDomainEuclidean", FALSE, TRUE, None),
    AdditiveGenerator(Some(Tone(20)), "FreqDomainMSE", TRUE),
    AdditiveGenerator(Some(Tone(20)), "TimeDomainEuclidean", TRUE) }

InitStepSizes == {StepSize(0 - 1, 2), StepSize(0, 1), StepSize(1, 2), StepSize(1, 1)}
MinStepSizes == {StepSize(0 - 1, 1), StepSize(1, 4), StepSize(1, 1)}

(* HillClimberBuilder::build after generator(g) and the setters *)
HCBuild(generator, init_step_size, max_iterations, min_step_size, max_unsuccessful_iters) ==
  {[current_individual |-> IF g.ok THEN Some(g.val) ELSE None,
    iteration |-> 0,
    target |-> GetTarget(generator).val,
    init_step_size |-> init_step_size,
    max_iterations |-> max_iterations,
    min_step_size |-> min_step_size,
    max_unsuccessful_iters |-> max_unsuccessful_iters,
    fundamental |-> None,
    step_size |-> init_step_size,
    unsuccessful_iters |-> 0,
    candidate |-> None,
    result |-> None,
    csv_export |-> FALSE,
    records |-> <<>>,
    started_at |-> 0,
    pc |-> IF g.ok THEN "built" ELSE "panicked",
    panic |-> IF g.ok THEN "" ELSE g.err] :
      g \in Generate(generator)}

HCInit ==
  /\ hc \in UNION {{[sim EXCEPT !.csv_export = e] :
                       sim \in HCBuild(g, i, mi, m, mu), e \in BOOLEAN} :
                      g \in HCGenerators, i \in InitStepSizes, mi \in 0..MaxIterations,
                      m \in MinStepSizes, mu \in 0..MaxUnsuccessful}
  /\ ga = GAIdle
  /\ bench = BenchIdle

(* run(), lines 147-149: a call of run() sets up its locals *)
HCRun ==
  /\ hc.pc \in {"built", "returned"}
  /\ hc' = [hc EXCEPT !.pc = "running",
                      !.step_size = hc.init_step_size,
                      !.unsuccessful_iters = 0,
                      !.candidate = None,
                      !.records = <<>>,
                      !.started_at = hc.iteration]
  /\ UNCHANGED <<ga, bench>>

(* impl From<&mut HillClimbingSimulation<T>> for IterationRow *)
IterationRow(sim) ==
  [iteration |-> sim.iteration,
   fitness |-> Fitness(sim.current_individual.val),
   fundamental |-> IF GetFundamental(sim.current_individual.val).some
                   THEN GetFundamental(sim.current_individual.val).val ELSE 0]

(* a run() that records nothing *)
IterationRecordMutant(sim) == sim

(* run(), lines 164-166: if self.csv_export.is_some() { add_record } *)
IterationRecord(sim) ==
  IF sim.csv_export THEN [sim EXCEPT !.records = Append(sim.records, IterationRow(sim))]
  ELSE sim

(* run(), lines 163-190: one pass of the loop body *)
Iterate(sim, candidate) ==
  IF ~candidate.ok
  THEN [sim EXCEPT !.pc = "panicked", !.panic = candidate.err]
  ELSE IF Accepts(candidate.val, sim.current_individual.val)
  THEN [sim EXCEPT !.step_size = GrowStep(sim.step_size),
                   !.unsuccessful_iters = 0,
                   !.current_individual = Some(candidate.val),
                   !.fundamental = GetFundamental(candidate.val),
                   !.candidate = Some(candidate.val),
                   !.iteration = sim.iteration + 1]
  ELSE [sim EXCEPT !.unsuccessful_iters = sim.unsuccessful_iters + 1,
                   !.candidate = Some(candidate.val),
                   !.iteration = sim.iteration + 1]

HCIterate ==
  /\ hc.pc = "running"
  /\ ~ShouldStop(hc)
  /\ \E candidate \in Evolve(hc.current_individual.val, hc.step_size) :
        hc' = Iterate(IterationRecord(hc), candidate)
  /\ UNCHANGED <<ga, bench>>

(* a run() that reports the exhausted failure budget as an error *)
RunResultMutant(sim) ==
  IF sim.unsuccessful_iters >= sim.max_unsuccessful_iters
  THEN Panic("NoFitterNeighbourFound")
  ELSE Ok(sim.current_individual.val)

(* run(), line 204: Ok(self.current_individual.clone()) *)
RunResult(sim) == Ok(sim.current_individual.val)

(* run(), lines 193-204: the loop is left and the current individual returned *)
HCReturn ==
  /\ hc.pc = "running"
  /\ ShouldStop(hc)
  /\ hc' = [hc EXCEPT !.pc = "returned", !.result = Some(RunResult(hc))]
  /\ UNCHANGED <<ga, bench>>

HCNext == HCRun \/ HCIterate \/ HCReturn

HCSpec == HCInit /\ [][HCNext]_vars

-----------------------------------------------------------------------------
(* Properties of the hill climber *)

(* a step of the model in which the loop body ran to its end *)
HCIterated ==
  hc.pc = "running" /\ hc'.pc = "running" /\ hc'.iteration = hc.iteration + 1

C4_Step ==
  HCIterated =>
     LET accepted == FloatGt(Fitness(hc'.candidate.val),
                             Fitness(hc.current_individual.val))
     IN /\ StepLt(hc.step_size, hc'.step_size) <=> accepted
        /\ accepted => hc'.step_size = StepSize(hc.step_size.num * 20,
                                                hc.step_size.den * 19)
        /\ ~accepted => hc'.step_size = hc.step_size

C5_Step ==
  HCIterated =>
     LET candidate == hc'.candidate.val
         greater == FloatGt(Fitness(candidate), Fitness(hc.current_individual.val))
     IN /\ greater => /\ hc'.current_individual = Some(candidate)
                      /\ hc'.unsuccessful_iters = 0
        /\ ~greater => /\ hc'.current_individual = hc.current_individual
                       /\ hc'.unsuccessful_iters = hc.unsuccessful_iters + 1

(* C5: an iteration replaces the current individual with the candidate     *)
(* exactly when the candidate's fitness is strictly greater; acceptance    *)
(* resets the failure counter, rejection (equal fitness included) keeps    *)
(* the current individual and adds one to the counter.                     *)
C5_Theorem == [][C5_Step]_vars

(* a candidate of equal fitness but other genes was rejected *)
C5_Witness ==
  /\ hc.pc = "running" /\ hc.iteration >= 1
  /\ hc.candidate.some
  /\ hc.candidate # hc.current_individual
  /\ Fitness(hc.candidate.val) = Fitness(hc.current_individual.val)
  /\ hc.unsuccessful_iters >= 1

C6_Stop ==
  (hc.pc = "running" /\
     (\/ hc.iteration >= hc.max_iterations
      \/ hc.step_size.num * hc.min_step_size.den < hc.min_step_size.num * hc.step_size.den
      \/ hc.unsuccessful_iters >= hc.max_unsuccessful_iters))
     => hc' = [hc EXCEPT !.pc = "returned",
                         !.result = Some(Ok(hc.current_individual.val))]

C6_Proposes ==
  (hc.pc = "running" /\ (hc'.iteration # hc.iteration \/ hc'.candidate # hc.candidate
                         \/ hc'.pc = "panicked"))
     => /\ hc.iteration < hc.max_iterations
        /\ ~(hc.step_size.num * hc.min_step_size.den < hc.min_step_size.num * hc.step_size.den)
        /\ hc.unsuccessful_iters < hc.max_unsuccessful_iters

(* C6: the run never proposes a candidate in a state where iteration >=    *)
(* max_iterations, step_size < min_step_size or the consecutive failures   *)
(* >= max_unsuccessful_iters; in the first such state it stops, iteration  *)
(* budget or not.                                                          *)
C6_Theorem == [][C6_Stop /\ C6_Proposes]_vars

(* stopped on the failure counter with iteration budget left *)
C6_Witness ==
  /\ hc.pc = "returned"
  /\ hc.iteration >= 1
  /\ hc.iteration < hc.max_iterations
  /\ hc.unsuccessful_iters >= hc.max_unsuccessful_iters

(* stopped before the first iteration on a step size below the minimum *)
C6_WitnessStep ==
  /\ hc.pc = "returned"
  /\ hc.iteration = 0 /\ hc.max_iterations > 0 /\ hc.max_unsuccessful_iters > 0
  /\ StepLt(hc.step_size, hc.min_step_size)

-----------------------------------------------------------------------------
(* Individuals handled directly through the Individual trait: generate,    *)
(* crossover, evolve and cmp on individuals of any generator               *)

BenchGenerators ==
  { SubtractiveGenerator(None, "FreqDomainMSE", TRUE, FALSE, None),
    SubtractiveGenerator(Some(EmptyTarget), "FreqDomainMSE", FALSE, FALSE, None),
    SubtractiveGenerator(Some(Tone(5000)), "FreqDomainMSE", TRUE, FALSE, None),
    SubtractiveGenerator(Some(Tone(5000)), "FreqDomainMSE", TRUE, FALSE, Some("LowPass")),
    SubtractiveGenerator(Some(Tone(5000)), "TimeDomainEuclidean", TRUE, FALSE, Some("LowPass")),
    SubtractiveGenerator(Some(Tone(5000)), "TimeDomainEuclidean", TRUE, FALSE, Some("HighPass")),
    SubtractiveGenerator(Some(Tone(20)), "TimeDomainEuclidean", TRUE, TRUE, Some("BandPass")),
    SubtractiveGenerator(Some(Tone(20)), "FreqDomainMSE", FALSE, TRUE, Some("BandReject")),
    AdditiveGenerator(Some(Tone(20)), "FreqDomainMSE", TRUE),
    AdditiveGenerator(Some(Tone(20)), "TimeDomainEuclidean", TRUE),
    AdditiveGenerator(Some(Tone(20)), "FreqDomainMSE", FALSE) }

BenchSteps == {StepSize(0, 1), StepSize(1, 2), StepSize(1, 1)}

BenchInit ==
  /\ bench = BenchIdle
  /\ ga = GAIdle
  /\ hc = HCIdle

(* generator.generate(), kept as self or as other *)
BenchGenerate ==
  /\ \E gen \in BenchGenerators : \E slot \in {"self", "other"} :
       \E o \in Generate(gen) :
          bench' = [op |-> "generate",
                    self |-> IF o.ok /\ slot = "self" THEN Some(o.val) ELSE bench.self,
                    other |-> IF o.ok /\ slot = "other" THEN Some(o.val) ELSE bench.other,
                    out |-> o]
  /\ UNCHANGED <<ga, hc>>

(* self.crossover(&other, r) *)
BenchCrossover ==
  /\ bench.self.some /\ bench.other.some
  /\ bench.self.val.method = bench.other.val.method
  /\ \E r \in MutationRates : \E o \in Crossover(bench.self.val, bench.other.val, r) :
        bench' = [bench EXCEPT !.op = "crossover", !.out = o]
  /\ UNCHANGED <<ga, hc>>

(* self.evolve(step_size) *)
BenchEvolve ==
  /\ bench.self.some
  /\ \E step \in BenchSteps : \E o \in Evolve(bench.self.val, step) :
        bench' = [bench EXCEPT !.op = "evolve", !.out = o]
  /\ UNCHANGED <<ga, hc>>

(* self.cmp(&other) *)
BenchCompare ==
  /\ bench.self.some /\ bench.other.some
  /\ bench.self.val.method = bench.other.val.method
  /\ bench' = [bench EXCEPT !.op = "compare",
                            !.out = Cmp(bench.self.val, bench.other.val)]
  /\ UNCHANGED <<ga, hc>>

BenchNext == BenchGenerate \/ BenchCrossover \/ BenchEvolve \/ BenchCompare

BenchSpec == BenchInit /\ [][BenchNext]_vars

-----------------------------------------------------------------------------
(* Properties of the individuals *)

(* the last operation returned an individual *)
BenchProducedOne ==
  /\ bench.op \in {"generate", "crossover", "evolve"}
  /\ bench.out.ok
  /\ bench.op = "crossover" => bench.out.val.some

BenchProduced == IF bench.op = "crossover" THEN bench.out.val.val ELSE bench.out.val

SameFamily(a, b) == a.some /\ b.some /\ a.val.type = b.val.type

(* the genes of a crossover's offspring: combined where both parents have  *)
(* the component (and, for filters, the same variant), absent otherwise    *)
GeneStructure(child, a, b) ==
  /\ child.oscillator.some <=> (a.oscillator.some /\ b.oscillator.some)
  /\ child.envelope.some <=> (a.envelope.some /\ b.envelope.some)
  /\ child.filter.some <=> SameFamily(a.filter, b.filter)
  /\ child.filter.some => child.filter.val.type = a.filter.val.type
  /\ child.harmonics.some <=> (a.harmonics.some /\ b.harmonics.some)

(* C7: crossover never fails: for any two parents it returns Some          *)
(* offspring, whose gene of each kind is the combined gene when both       *)
(* parents have it in the same variant and is absent otherwise.            *)
C7_CrossoverNeverFails ==
  bench.op = "crossover" =>
     /\ bench.out.ok
     /\ bench.out.val.some
     /\ GeneStructure(bench.out.val.val, bench.self.val, bench.other.val)

(* C7, the part that holds: a crossover that returns, returns Some         *)
(* offspring with that gene structure.                                     *)
C7_ReturnsSome ==
  (bench.op = "crossover" /\ bench.out.ok) =>
     /\ bench.out.val.some
     /\ GeneStructure(bench.out.val.val, bench.self.val, bench.other.val)

(* C7, where it fails: the crossover of two parents with low-pass filters  *)
(* ended in the panic of the fitness evaluation                            *)
C7_Witness ==
  /\ bench.op = "crossover"
  /\ ~bench.out.ok
  /\ bench.out.err = "MSE should be valid"
  /\ SameFamily(bench.self.val.filter, bench.other.val.filter)

SomePartialAtNyquist(ind) ==
  /\ ind.harmonics.some
  /\ \E i \in 1..Len(ind.harmonics.val.amplitudes) :
        2 * (ind.harmonics.val.freq * i) >= 44100

(* C8: an AdditiveIndividual has fitness exactly 0 whenever some partial   *)
(* freq * i is not strictly below 22050 Hz, whatever produced it; with     *)
(* every partial below, its fitness is the value of the metric.            *)
C8_Theorem ==
  (BenchProducedOne /\ BenchProduced.method = "additive") =>
     /\ BenchProduced.fitness.some
     /\ IF SomePartialAtNyquist(BenchProduced)
        THEN BenchProduced.fitness.val = 0 /\ Fitness(BenchProduced) = 0
        ELSE /\ CalculateFitness(BenchProduced).ok
             /\ BenchProduced.fitness.val = CalculateFitness(BenchProduced).val
             /\ Fitness(BenchProduced) = CalculateFitness(BenchProduced).val

(* an evolve moved the fundamental onto 2450 Hz, whose ninth partial is    *)
(* 22050 Hz                                                                *)
C8_Witness ==
  /\ BenchProducedOne /\ bench.op = "evolve"
  /\ BenchProduced.method = "additive"
  /\ BenchProduced.harmonics.some
  /\ BenchProduced.harmonics.val.freq = 2450
  /\ bench.self.val.harmonics.val.freq = 2449
  /\ BenchProduced.fitness = Some(0)

InUnitRange(f) == f # NaN /\ 0 <= f /\ f <= 2 * FitnessOne

(* C9: for both metrics the fitness of any individual lies in [0, 2] and   *)
(* is never NaN, so no comparison of two individuals hits the NaN abort    *)
(* of Ord::cmp (nor does the evaluation of a fitness abort).               *)
C9_FitnessInRange ==
  /\ bench.self.some => InUnitRange(Fitness(bench.self.val))
  /\ bench.other.some => InUnitRange(Fitness(bench.other.val))
  /\ BenchProducedOne => InUnitRange(Fitness(BenchProduced))
  /\ bench.op = "compare" => bench.out.ok
  /\ ~bench.out.ok =>
        bench.out.err \notin {"MSE should be valid", "No fitness value should be NaN."}

(* C9, where it fails: two generated individuals, one of NaN fitness, and  *)
(* the comparison of the two aborted                                       *)
C9_Witness ==
  /\ bench.op = "compare"
  /\ ~bench.out.ok
  /\ bench.out.err = "No fitness value should be NaN."
  /\ bench.self.val.filter.some
  /\ ~IsBand(bench.self.val.filter.val)
  /\ bench.self.val.filter.val.cutoff_freq = 0
  /\ bench.self.val.fitness = Some(NaN)

(* the fitness an individual's own components produce against its target *)
Uncached(ind) == [ind EXCEPT !.fitness = None]

C10_Cached ==
  BenchProducedOne =>
     /\ BenchProduced.fitness.some
     /\ BenchProduced.fitness.val = Fitness(Uncached(BenchProduced))

C10_Frozen ==
  bench'.op \in {"crossover", "evolve", "compare"} =>
     bench'.self = bench.self /\ bench'.other = bench.other

(* C10: every individual produced by generate, crossover or evolve has its *)
(* fitness cached, the cached value is the one its own components produce  *)
(* against its target, and no operation changes the components of an       *)
(* individual whose fitness is cached.                                     *)
C10_Theorem == []C10_Cached /\ [][C10_Frozen]_vars

C10_Witness ==
  /\ BenchProducedOne /\ bench.op = "crossover"
  /\ BenchProduced.oscillator.some
  /\ BenchProduced.fitness.some
  /\ BenchProduced.fitness.val # Fitness(bench.self.val)
  /\ BenchProduced.fitness.val # Fitness(bench.other.val)

-----------------------------------------------------------------------------
(* Properties of the breeding of one step *)

(* the number of survivors next() selects from the pool of the current     *)
(* population and the random additions                                     *)
SurvivorCount ==
  IF ga.population_evolution = "Constant"
  THEN ga.initial_population \div 2
  ELSE (Len(ga.population) + ga.n_random_additions) \div 2

(* the pairs of one pass, as positions in the shuffled survivors *)
PairPositions(n) == Pairs([i \in 1..n |-> i])

TimesPaired(k, pairs) ==
  Cardinality({<<i, j>> \in (1..Len(pairs)) \X {1, 2} : pairs[i][j] = k})

C12_Pairs ==
  (GABuilt /\ ga.panic = "") =>
     LET pairs == PairPositions(SurvivorCount)
     IN /\ Len(pairs) = SurvivorCount \div 2
        /\ \A i \in 1..Len(pairs) : pairs[i] = <<2 * i - 1, 2 * i>>
        /\ \A k \in 1..SurvivorCount :
              TimesPaired(k, pairs) = IF k <= 2 * (SurvivorCount \div 2) THEN 1 ELSE 0

C12_Step ==
  (GABuilt /\ ga.panic = "" /\ ga'.generation = ga.generation + 1)
     => ga'.offspring = 2 * Len(PairPositions(SurvivorCount))

(* C12: a step makes exactly two shuffle-and-pair passes over the          *)
(* survivors; a pass pairs the shuffled survivors in disjoint consecutive  *)
(* pairs, each survivor in at most one pair, the last one in none when the *)
(* count is odd; the recorded offspring count is 2*floor(survivors/2).     *)
C12_Theorem == []C12_Pairs /\ [][C12_Step]_vars

C12_Witness ==
  /\ GABuilt /\ ga.panic = ""
  /\ ga.initial_population = TEST_INITIAL_POPULATION
  /\ ga.population_evolution = "Increasing"
  /\ ga.n_random_additions = 3
  /\ ga.generation = 1
  /\ ga.offspring = 50
  /\ Len(ga.population) = 101

-----------------------------------------------------------------------------
(* Properties of the selection of one step *)

(* every member of s is in t at least as many times *)
IncludedIn(s, t) == \A x \in Range(s) : Count(x, s) <= Count(x, t)

(* the pool is the current population and n_random_additions generated     *)
(* individuals, and none of those it discards is strictly fitter than one  *)
(* of its survivors                                                        *)
C13_Pool(pool) ==
  /\ Len(pool) = Len(ga.population) + ga.n_random_additions
  /\ IncludedIn(ga.population, pool)
  /\ \A x \in Range(pool) :
        Count(x, pool) > Count(x, ga.population) => Ok(x) \in Generate(ga.generator)
  /\ SurvivorCount <= Len(pool)
  /\ \A i \in 1..SurvivorCount : \A j \in (SurvivorCount + 1)..Len(pool) :
        ~FloatGt(Fitness(pool[j]), Fitness(pool[i]))

(* C13: in a step the pool is the current population plus exactly          *)
(* n_random_additions new individuals; the survivors are the survivorCount *)
(* fittest of the pool (floor(initial_population/2) in Constant mode,      *)
(* floor(pool/2) in Increasing mode); no discarded member of the pool is   *)
(* strictly fitter than a survivor; every survivor is unchanged in the     *)
(* next population.                                                        *)
C13_Step ==
  (GABuilt /\ ga.panic = "" /\ ga'.generation = ga.generation + 1)
     => /\ \A cur \in CurrentPopulation(ga) : cur.ok => C13_Pool(cur.val)
        /\ \E cur \in CurrentPopulation(ga) :
              /\ cur.ok
              /\ IncludedIn(SubSeq(cur.val, 1, SurvivorCount), ga'.population)
              /\ Len(ga'.population) = SurvivorCount + ga'.offspring

C13_Theorem == [][C13_Step]_vars

C13_Witness ==
  /\ GABuilt /\ ga.panic = ""
  /\ ga.generation = 1
  /\ ga.n_random_additions = 1
  /\ ga.initial_population = 3
  /\ ga.population_evolution = "Increasing"
  /\ Len(ga.population) = 4
  /\ Fitness(ga.population[1]) > Fitness(ga.population[4])

-----------------------------------------------------------------------------
(* Properties of the genes of a population *)

(* ind has exactly the components the generator enables, its filter of the *)
(* generator's variant                                                     *)
HasGenesOf(ind, generator) ==
  /\ ind.method = generator.method
  /\ ind.oscillator.some <=> generator.oscillator
  /\ ind.envelope.some <=> generator.envelope
  /\ ind.filter.some <=> generator.filter.some
  /\ ind.filter.some => ind.filter.val.type = generator.filter.val
  /\ ind.harmonics.some <=> generator.harmonics

C17_Genes ==
  (GABuilt /\ ga.panic = "") =>
     \A i \in 1..Len(ga.population) : HasGenesOf(ga.population[i], ga.generator)

C17_Step ==
  (GABuilt /\ ga.panic = "" /\ ga'.generation = ga.generation + 1)
     => /\ ga'.offspring = 2 * (SurvivorCount \div 2)
        /\ Len(ga'.population) = SurvivorCount + ga'.offspring
        /\ \A i \in 1..Len(ga'.population) : HasGenesOf(ga'.population[i], ga.generator)

(* C17: in a run whose individuals all come from one generator, every      *)
(* individual of the population after any number of generations has        *)
(* exactly the component kinds (and the filter variant) the generator      *)
(* enables; a crossover between two of them drops no gene and no           *)
(* offspring.                                                              *)
C17_Theorem == []C17_Genes /\ [][C17_Step]_vars

C17_Witness ==
  /\ GABuilt /\ ga.panic = ""
  /\ ga.generation = MaxGenerations
  /\ ga.generator.oscillator /\ ga.generator.filter = Some("LowPass")
  /\ ga.offspring >= 2
  /\ \A i \in 1..Len(ga.population) :
        /\ ga.population[i].oscillator.some
        /\ ga.population[i].filter.some
        /\ ga.population[i].filter.val.type = "LowPass"

-----------------------------------------------------------------------------
(* The breeding loop of next(), worker by worker: the chunks of one pass   *)
(* are processed concurrently, each worker crossing its pair and then      *)
(* pushing the offspring into the pool under the mutex.                    *)

(* a push that is not protected: it overwrites the last write of another   *)
(* worker                                                                  *)
LockedPushMutant(pool, c) ==
  IF pool = <<>> THEN <<c>> ELSE [pool EXCEPT ![Len(pool)] = c]

(* offspring_mutex.lock().unwrap().push(c) *)
LockedPush(pool, c) == Append(pool, c)

(* chunks(2): the number of chunks, the last one of length 1 when the      *)
(* count is odd                                                            *)
NChunks(s) == (Len(s) + 1) \div 2

PoolGenerator == SubtractiveGenerator(Some(Tone(5000)), "FreqDomainMSE", TRUE, FALSE, None)

(* the survivors the loop starts from *)
PoolSurvivors ==
  LET inds == {g.val : g \in {x \in Generate(PoolGenerator) : x.ok}}
  IN UNION {[1..n -> inds] : n \in 0..MaxSurvivors}

PoolInit ==
  /\ bench \in {[op |-> "breed", pc |-> "shuffle", pass |-> 1,
                 survivors |-> sv, new_population |-> sv,
                 worker |-> [i \in 1..NChunks(sv) |-> "ready"],
                 child |-> [k \in 1..2 |-> [i \in 1..NChunks(sv) |-> None]],
                 pool |-> <<>>, offspring |-> 0, population |-> <<>>,
                 mutation_rate |-> 5, panic |-> ""] : sv \in PoolSurvivors}
  /\ ga = GAIdle
  /\ hc = HCIdle

(* line 208: new_population.shuffle(&mut rng) *)
PoolShuffle ==
  /\ bench.pc = "shuffle"
  /\ \E sh \in Shuffle(bench.new_population) :
        bench' = [bench EXCEPT !.pc = "pass", !.new_population = sh,
                               !.worker = [i \in 1..NChunks(sh) |-> "ready"]]
  /\ UNCHANGED <<ga, hc>>

(* lines 210-211: the worker of chunk i crosses its pair *)
PoolCross(i) ==
  /\ bench.pc = "pass"
  /\ bench.worker[i] = "ready"
  /\ IF 2 * i > Len(bench.new_population)
     THEN bench' = [bench EXCEPT !.worker[i] = "crossed"]
     ELSE \E c \in Crossover(bench.new_population[2 * i - 1],
                             bench.new_population[2 * i], bench.mutation_rate) :
            bench' = IF ~c.ok
                     THEN [bench EXCEPT !.pc = "panicked", !.panic = c.err]
                     ELSE [bench EXCEPT !.worker[i] = "crossed",
                                        !.child[bench.pass][i] = c.val]
  /\ UNCHANGED <<ga, hc>>

(* lines 211-214: the worker of chunk i pushes its offspring, if any *)
PoolPush(i) ==
  /\ bench.pc = "pass"
  /\ bench.worker[i] = "crossed"
  /\ bench' = [bench EXCEPT
                 !.worker[i] = "pushed",
                 !.pool = IF bench.child[bench.pass][i].some
                          THEN LockedPush(bench.pool, bench.child[bench.pass][i].val)
                          ELSE bench.pool]
  /\ UNCHANGED <<ga, hc>>

(* line 207: for _ in 0..2 *)
PoolPassEnd ==
  /\ bench.pc = "pass"
  /\ \A i \in DOMAIN bench.worker : bench.worker[i] = "pushed"
  /\ bench' = IF bench.pass = 1
              THEN [bench EXCEPT !.pass = 2, !.pc = "shuffle"]
              ELSE [bench EXCEPT !.pc = "join"]
  /\ UNCHANGED <<ga, hc>>

(* lines 219-229: offspring count, extend, sort, store *)
PoolJoin ==
  /\ bench.pc = "join"
  /\ bench' = IF SortPanics(bench.new_population \o bench.pool)
              THEN [bench EXCEPT !.pc = "panicked", !.offspring = Len(bench.pool),
                                 !.panic = "No fitness value should be NaN."]
              ELSE [bench EXCEPT !.pc = "done", !.offspring = Len(bench.pool),
                                 !.population = SortDesc(bench.new_population \o bench.pool)]
  /\ UNCHANGED <<ga, hc>>

PoolNext ==
  \/ PoolShuffle
  \/ \E i \in DOMAIN bench.worker : PoolCross(i)
  \/ \E i \in DOMAIN bench.worker : PoolPush(i)
  \/ PoolPassEnd
  \/ PoolJoin

PoolSpec == PoolInit /\ [][PoolNext]_vars

-----------------------------------------------------------------------------
(* Properties of the concurrent collection *)

(* the offspring of the workers of pass k that have pushed, by chunk *)
PushedChildren(k) ==
  LET done(i) == /\ bench.child[k][i].some
                 /\ (k < bench.pass \/ bench.pc \in {"join", "done"}
                     \/ (k = bench.pass /\ bench.pc = "pass" /\ bench.worker[i] = "pushed"))
      kept == SelectSeq([i \in 1..NChunks(bench.survivors) |-> i], done)
  IN [j \in 1..Len(kept) |-> bench.child[k][kept[j]].val]

SameMembers(s, t) ==
  /\ Len(s) = Len(t)
  /\ \A x \in Range(s) \cup Range(t) : Count(x, s) = Count(x, t)

(* C18: with the pairs of a pass processed concurrently and pushing into   *)
(* the mutex-protected pool, every interleaving yields exactly one         *)
(* offspring per complete pair per pass, none lost and none duplicated,    *)
(* and the sorted population has the same size and the same members        *)
(* whatever the order of collection.                                       *)
C18_Theorem ==
  (bench.op = "breed" /\ bench.pc # "panicked") =>
     /\ SameMembers(bench.pool, PushedChildren(1) \o PushedChildren(2))
     /\ bench.pc \in {"join", "done"} =>
           Len(bench.pool) = 2 * (Len(bench.survivors) \div 2)
     /\ bench.pc = "done" =>
           /\ bench.offspring = 2 * (Len(bench.survivors) \div 2)
           /\ SameMembers(bench.population,
                          bench.survivors \o PushedChildren(1) \o PushedChildren(2))
           /\ SortedDescending(bench.population)

(* two pairs per pass whose offspring differ, collected in another order   *)
(* than that of the pairs                                                  *)
C18_Witness ==
  /\ bench.op = "breed" /\ bench.pc = "done"
  /\ Len(bench.survivors) >= 4
  /\ bench.child[1][1] # bench.child[1][2]
  /\ bench.pool[1] = bench.child[1][2].val
  /\ bench.pool[2] = bench.child[1][1].val
  /\ Len(bench.population) = Len(bench.survivors) + 4

-----------------------------------------------------------------------------
(* GASimulation::run and its telemetry.  The statistics are computed on    *)
(* fitness values in thousandths; a product of two such values is in       *)
(* millionths.                                                             *)

RECURSIVE Sum(_)
Sum(values) == IF values = <<>> THEN 0 ELSE Head(values) + Sum(Tail(values))

(* the fitness values of a population, in thousandths *)
FitnessValues(population) ==
  [i \in 1..Len(population) |->
      IF Fitness(population[i]) = NaN THEN NaN ELSE Fitness(population[i]) \div 100]

HasNaN(values) == \E i \in 1..Len(values) : values[i] = NaN

(* utils::mean: sum / len; 0.0 / 0.0 on no values *)
Mean(values) ==
  IF values = <<>> \/ HasNaN(values) THEN NaN ELSE Sum(values) \div Len(values)

(* utils::std: mean(values^2) - mean(values)^2, in millionths *)
Std(values) ==
  IF values = <<>> \/ HasNaN(values) THEN NaN
  ELSE Mean([i \in 1..Len(values) |-> values[i] * values[i]])
       - Mean(values) * Mean(values)

(* impl From<&mut GASimulation<T>> for GenerationRow *)
GenerationRow(sim) ==
  IF sim.population = <<>> THEN Panic("There should be at least one individual")
  ELSE Ok([generation |-> sim.generation,
           offspring |-> sim.offspring,
           fundamental |-> IF sim.fundamental.some THEN sim.fundamental.val ELSE 0,
           max_fitness |-> Fitness(sim.population[1]),
           average_fitness |-> Mean(FitnessValues(sim.population)),
           std |-> Std(FitnessValues(sim.population))])

(* if self.csv_export.is_some() { recorder.add_record(self.into()) } *)
AddRecord(sim) ==
  IF ~sim.csv_export THEN sim
  ELSE IF ~GenerationRow(sim).ok
  THEN [sim EXCEPT !.pc = "panicked", !.panic = GenerationRow(sim).err]
  ELSE [sim EXCEPT !.records = Append(sim.records, GenerationRow(sim).val)]

(* a loop test that lets the generation reach past max_generations *)
RunContinuesMutant(sim) == sim.generation <= sim.max_generations

(* while self.generation < self.max_generations *)
RunContinues(sim) == sim.generation < sim.max_generations

RunAdditions == {0, 1}

RunGenerators ==
  { SubtractiveGenerator(Some(Tone(5000)), "FreqDomainMSE", TRUE, FALSE, None),
    SubtractiveGenerator(Some(Tone(5000)), "TimeDomainEuclidean", TRUE, FALSE, Some("LowPass")),
    AdditiveGenerator(Some(Tone(20)), "FreqDomainMSE", TRUE) }

(* a built simulation with max_generations and csv_export as the builder   *)
(* was given them; records is the recorder of run(), started_at the        *)
(* generation at which run() was entered                                   *)
RunBuild(sim, max_generations, csv_export) ==
  [sim EXCEPT !.max_generations = max_generations]
  @@ [csv_export |-> csv_export, records |-> <<>>, started_at |-> 0,
      pc |-> IF sim.panic = "" THEN "built" ELSE "panicked"]

RunInit ==
  /\ ga \in UNION {UNION {{RunBuild(sim, mg, e) :
                              sim \in GABuild(g, n, a, mode, 5), e \in BOOLEAN} :
                            n \in 0..MaxRunPop, a \in RunAdditions,
                            mode \in {"Constant", "Increasing"},
                            mg \in 0..MaxGenerations} :
                     g \in RunGenerators}
  /\ hc = HCIdle
  /\ bench = BenchIdle

(* run(), lines 247-253: a call of run() and its first record *)
GARunStart ==
  /\ ga.pc \in {"built", "returned"}
  /\ ga' = AddRecord([ga EXCEPT !.pc = "running", !.records = <<>>,
                                !.started_at = ga.generation])
  /\ UNCHANGED <<hc, bench>>

(* run(), lines 255-263: one pass of the loop: next(), then the record *)
GARunStep ==
  /\ ga.pc = "running"
  /\ RunContinues(ga)
  /\ \E sim \in NextOutcomes(ga) :
        ga' = IF sim.panic # "" THEN [sim EXCEPT !.pc = "panicked"]
              ELSE AddRecord(sim)
  /\ UNCHANGED <<hc, bench>>

(* run(), lines 265-279: the loop is left and the fittest returned *)
GARunReturn ==
  /\ ga.pc = "running"
  /\ ~RunContinues(ga)
  /\ ga' = IF ga.population = <<>>
           THEN [ga EXCEPT !.pc = "panicked",
                           !.panic = "There should be a fittest individual in the population."]
           ELSE [ga EXCEPT !.pc = "returned"]
  /\ UNCHANGED <<hc, bench>>

RunNext == GARunStart \/ GARunStep \/ GARunReturn

RunSpec == RunInit /\ [][RunNext]_vars

-----------------------------------------------------------------------------
(* Properties of run() *)

GenerationIndices(records) == [i \in 1..Len(records) |-> records[i].generation]

(* C11 as stated: a run started at generation 0 executes exactly           *)
(* max_generations steps and emits max_generations + 1 records, with the   *)
(* generation indices 0, 1, ..., max_generations in order.                 *)
C11_Original ==
  (ga.pc = "returned" /\ ga.started_at = 0) =>
     /\ ga.generation = ga.max_generations
     /\ GenerationIndices(ga.records) = [i \in 1..(ga.max_generations + 1) |-> i - 1]

(* C11, amended: a run started at generation 0 that returns has executed   *)
(* exactly max_generations steps; with csv_export set it has emitted one   *)
(* record before the first step and one after every step, with generation  *)
(* indices 0, 1, ..., max_generations in order, and while it runs the      *)
(* records are those of generations 0 to the current one; without          *)
(* csv_export it emits no record.                                          *)
C11_Theorem ==
  /\ (ga.pc = "returned" /\ ga.started_at = 0) =>
        /\ ga.generation = ga.max_generations
        /\ ga.csv_export =>
              GenerationIndices(ga.records) = [i \in 1..(ga.max_generations + 1) |-> i - 1]
  /\ (ga.pc = "running" /\ ga.started_at = 0) =>
        /\ ga.generation <= ga.max_generations
        /\ ga.csv_export =>
              GenerationIndices(ga.records) = [i \in 1..(ga.generation + 1) |-> i - 1]
  /\ (ga.pc \in {"running", "returned"} /\ ~ga.csv_export) => ga.records = <<>>

C11_Witness ==
  /\ ga.pc = "returned" /\ ga.started_at = 0
  /\ ga.csv_export
  /\ ga.max_generations = MaxGenerations
  /\ ga.generation = MaxGenerations
  /\ Len(ga.records) = MaxGenerations + 1
  /\ ga.records[Len(ga.records)].generation = MaxGenerations
  /\ ga.records[Len(ga.records)].offspring >= 2

-----------------------------------------------------------------------------
(* Properties of the result of the hill climber's run() *)

(* the three conditions that end run() *)
MaxIterationsReached(sim) == ~(sim.iteration < sim.max_iterations)
StepTooSmall(sim) == StepLt(sim.step_size, sim.min_step_size)
BudgetExhausted(sim) == sim.unsuccessful_iters >= sim.max_unsuccessful_iters

(* C15: whichever of the three terminal conditions ends the run (max       *)
(* iterations, step size below the minimum, too many consecutive           *)
(* failures), run() returns the current best individual as a success       *)
(* value; NoFitterNeighbourFound is never returned.                        *)
C15_Theorem ==
  (hc.panic # "not built" /\ hc.pc = "returned") =>
     /\ MaxIterationsReached(hc) \/ StepTooSmall(hc) \/ BudgetExhausted(hc)
     /\ hc.result = Some(Ok(hc.current_individual.val))

C15_Witness ==
  /\ hc.panic # "not built" /\ hc.pc = "returned"
  /\ BudgetExhausted(hc) /\ hc.max_unsuccessful_iters > 0
  /\ ~MaxIterationsReached(hc) /\ ~StepTooSmall(hc)
  /\ hc.result = Some(Ok(hc.current_individual.val))

-----------------------------------------------------------------------------
(* Properties of the telemetry records *)

(* the standard deviation of the values: the square root of their          *)
(* variance, in millionths                                                 *)
StandardDeviation(values) ==
  IF values = <<>> \/ HasNaN(values) THEN NaN
  ELSE LET variance == Mean([i \in 1..Len(values) |-> values[i] * values[i]])
                       - Mean(values) * Mean(values)
       IN 1000 * (CHOOSE r \in 0..1000 : r * r <= variance /\ variance < (r + 1) * (r + 1))

LastRecord == ga.records[Len(ga.records)]

Recorded == ga.pc \in {"running", "returned"} /\ ga.records # <<>>

(* C19: each telemetry record reports the fitness of the fittest           *)
(* individual (population[0]), the mean fitness, the standard deviation of *)
(* the fitness (the square root of the variance), the generation index and *)
(* the offspring count.                                                    *)
C19_Record ==
  Recorded =>
     /\ LastRecord.generation = ga.generation
     /\ LastRecord.offspring = ga.offspring
     /\ LastRecord.max_fitness = Fitness(ga.population[1])
     /\ LastRecord.average_fitness = Mean(FitnessValues(ga.population))
     /\ LastRecord.std = StandardDeviation(FitnessValues(ga.population))

(* a record of a population of two fitness values: its std is their        *)
(* variance                                                                *)
C19_Witness ==
  /\ Recorded
  /\ ga.generation >= 1
  /\ LastRecord.std > 0
  /\ LastRecord.std # StandardDeviation(FitnessValues(ga.population))
  /\ LET r == StandardDeviation(FitnessValues(ga.population)) \div 1000
     IN r * r <= LastRecord.std /\ LastRecord.std < (r + 1) * (r + 1)

-----------------------------------------------------------------------------
(* Signal::normalise on signals given sample by sample (in hundredths) *)

(* a normalise that pads a short signal and leaves a long one as it is *)
NormaliseMutant(samples) ==
  IF Len(samples) >= NORMALISE_SAMPLES THEN samples
  ELSE samples \o [i \in 1..(NORMALISE_SAMPLES - Len(samples)) |-> 0]

(* Signal::normalise *)
Normalise(samples) ==
  IF Len(samples) >= NORMALISE_SAMPLES
  THEN SubSeq(samples, 1, NORMALISE_SAMPLES)
  ELSE samples \o [i \in 1..(NORMALISE_SAMPLES - Len(samples)) |-> 0]

SampleGrid == {-50, 0, 50}

(* the lengths of the signals: those of test_normalise, and those around   *)
(* the normalised length                                                   *)
SampleLengths == {1000, 16383, 16384, 16385, 18000}

(* Signal::from_samples: every signal of up to MaxSamples samples, and     *)
(* each of them followed by samples of 0.5 up to one of the lengths        *)
SignalInputs ==
  LET short == UNION {[1..n -> SampleGrid] : n \in 0..MaxSamples}
  IN short \cup {h \o [i \in 1..(l - Len(h)) |-> 50] : h \in short, l \in SampleLengths}

NormaliseInit ==
  /\ bench \in {[op |-> "signal", self |-> samples, once |-> <<>>, out |-> <<>>] :
                  samples \in SignalInputs}
  /\ ga = GAIdle
  /\ hc = HCIdle

(* signal.normalise() *)
NormaliseOnce ==
  /\ bench.op = "signal"
  /\ bench' = [bench EXCEPT !.op = "normalise",
                            !.once = Normalise(bench.self),
                            !.out = Normalise(bench.self)]
  /\ UNCHANGED <<ga, hc>>

(* signal.normalise().normalise() *)
NormaliseTwice ==
  /\ bench.op = "normalise"
  /\ bench' = [bench EXCEPT !.op = "normalise twice", !.out = Normalise(bench.once)]
  /\ UNCHANGED <<ga, hc>>

NormaliseNext == NormaliseOnce \/ NormaliseTwice

NormaliseSpec == NormaliseInit /\ [][NormaliseNext]_vars

(* C16: normalise returns exactly 16,384 samples for every input length: a *)
(* shorter input is kept as a prefix and padded with trailing zeros, an    *)
(* input of 16,384 samples or more is truncated to its first 16,384, and   *)
(* normalise(normalise(s)) = normalise(s).                                 *)
C16_Theorem ==
  /\ bench.op \in {"normalise", "normalise twice"} =>
        /\ Len(bench.once) = 16384
        /\ \A i \in 1..16384 :
              bench.once[i] = IF i <= Len(bench.self) THEN bench.self[i] ELSE 0
  /\ bench.op = "normalise twice" => bench.out = bench.once

C16_Witness ==
  /\ bench.op = "normalise twice"
  /\ Len(bench.self) = 18000
  /\ bench.self[1] = -50
  /\ Len(bench.out) = 16384
  /\ bench.out[1] = -50 /\ bench.out[16384] = 50

-----------------------------------------------------------------------------
(* FilterComponent: every sequence of create, combine and evolve on two    *)
(* band filters, and the kernel built from the one in self                 *)

BandTypes == {"BandPass", "BandReject"}

FilterInit ==
  /\ bench \in {[op |-> "create", self |-> s, other |-> o, asserted |-> FALSE, failed |-> FALSE] :
                  s \in UNION {FilterCreate(t) : t \in BandTypes},
                  o \in UNION {FilterCreate(t) : t \in BandTypes}}
  /\ ga = GAIdle
  /\ hc = HCIdle

(* FilterComponent::create(filter_type), kept as self or as other *)
FilterCreates ==
  /\ \E t \in BandTypes : \E c \in FilterCreate(t) : \E slot \in {"self", "other"} :
        bench' = [bench EXCEPT !.op = "create", !.asserted = FALSE,
                               !.self = IF slot = "self" THEN c ELSE bench.self,
                               !.other = IF slot = "other" THEN c ELSE bench.other]
  /\ UNCHANGED <<ga, hc>>

(* self.combine(&other, mutation_rate), kept as self when it is Some *)
FilterCombines ==
  /\ \E r \in MutationRates : \E c \in FilterCombine(bench.self, bench.other, r) :
        bench' = [bench EXCEPT !.op = "combine", !.asserted = FALSE,
                               !.self = IF c.some THEN c.val ELSE bench.self]
  /\ UNCHANGED <<ga, hc>>

(* self.evolve(step_size), kept as self unless gen_range panicked *)
FilterEvolves ==
  /\ \E step \in BenchSteps :
        IF FilterEvolvePanics(bench.self, step)
        THEN bench' = [bench EXCEPT !.op = "evolve panicked", !.asserted = FALSE]
        ELSE \E c \in FilterEvolve(bench.self, step) :
                bench' = [bench EXCEPT !.op = "evolve", !.asserted = FALSE, !.self = c]
  /\ UNCHANGED <<ga, hc>>

(* band_pass_filter / band_reject_filter: assert!(low_freq <= high_freq) *)
FilterKernel ==
  /\ bench' = [bench EXCEPT !.asserted = TRUE,
                            !.failed = bench.failed \/ ApplyFilterPanics(bench.self)]
  /\ UNCHANGED <<ga, hc>>

FilterNext == FilterCreates \/ FilterCombines \/ FilterEvolves \/ FilterKernel

FilterSpec == FilterInit /\ [][FilterNext]_vars

(* C20: every BandPass or BandReject filter reachable by any sequence of   *)
(* create, combine and evolve has low_freq <= high_freq, so the assert of  *)
(* band_pass_filter and band_reject_filter never fails.                    *)
C20_Theorem ==
  /\ bench.self.low_freq <= bench.self.high_freq
  /\ bench.other.low_freq <= bench.other.high_freq
  /\ ~bench.failed

(* an evolved band-reject filter whose kernel was built *)
C20_Witness ==
  /\ bench.op = "evolve" /\ bench.asserted
  /\ bench.self.type = "BandReject"
  /\ bench.self.low_freq < bench.self.high_freq
  /\ ~bench.failed

-----------------------------------------------------------------------------
(* The builders: GASimulationBuilder and HillClimberBuilder *)

(* GASimulationBuilder::default, HillClimberBuilder::default *)
BuilderNew == [generator |-> None, target |-> None]

(* a generator() that stores the generator without asking for its target *)
BuilderGeneratorMutant(b, g) == Ok([b EXCEPT !.generator = Some(g)])

(* generator(): self.target = Some(generator.get_target()) *)
BuilderGenerator(b, g) ==
  IF ~GetTarget(g).ok THEN Panic(GetTarget(g).err)
  ELSE Ok([generator |-> Some(g), target |-> Some(GetTarget(g).val)])

(* target() *)
BuilderTarget(b, t) == [b EXCEPT !.target = Some(t)]

BuilderGenerators ==
  { SubtractiveGenerator(Some(Tone(5000)), "FreqDomainMSE", TRUE, FALSE, None),
    AdditiveGenerator(Some(Tone(20)), "FreqDomainMSE", TRUE),
    SubtractiveGenerator(None, "FreqDomainMSE", TRUE, FALSE, None),
    AdditiveGenerator(None, "FreqDomainMSE", TRUE) }

BuilderTargets == {Tone(20), Tone(5000)}

BuilderPopulations == {0, 2}

(* GASimulationBuilder::build *)
GABuilderBuild(b, initial_population, max_generations) ==
  IF ~b.generator.some THEN {Panic("Expected a generator.")}
  ELSE {IF ~pop.ok THEN Panic(pop.err)
        ELSE IF ~b.target.some
        THEN Panic("Expected a reference counter to the target signal.")
        ELSE Ok([generation |-> 0,
                 mutation_rate |-> 5,
                 max_generations |-> max_generations,
                 population |-> pop.val,
                 target |-> b.target.val,
                 n_random_additions |-> 1,
                 initial_population |-> initial_population,
                 population_evolution |-> "Increasing",
                 offspring |-> 0,
                 fundamental |-> None,
                 generator |-> b.generator.val,
                 csv_export |-> FALSE,
                 records |-> <<>>,
                 started_at |-> 0,
                 panic |-> ""]) :
          pop \in InitPopulation(initial_population, b.generator.val)}

(* HillClimberBuilder::build *)
HCBuilderBuild(b, max_iterations) ==
  IF ~b.generator.some THEN {Panic("Generator expected")}
  ELSE {IF ~g.ok THEN Panic(g.err)
        ELSE IF ~b.target.some
        THEN Panic("Expected a reference counter to the target signal.")
        ELSE Ok([current_individual |-> Some(g.val),
                 iteration |-> 0,
                 target |-> b.target.val,
                 init_step_size |-> StepSize(1, 2),
                 max_iterations |-> max_iterations,
                 min_step_size |-> StepSize(1, 4),
                 max_unsuccessful_iters |-> 1,
                 fundamental |-> None,
                 step_size |-> StepSize(1, 2),
                 unsuccessful_iters |-> 0,
                 candidate |-> None,
                 result |-> None,
                 csv_export |-> FALSE,
                 records |-> <<>>,
                 started_at |-> 0,
                 panic |-> ""]) :
          g \in Generate(b.generator.val)}

(* a builder under construction, or what is left of it after a panic *)
Constructing(b, panic) ==
  [pc |-> IF panic = "" THEN "builder" ELSE "panicked",
   panic |-> panic, builder |-> b, built |-> FALSE]

(* the optimizer build() returned, with the builder it was built from *)
Constructed(b, sim) == sim @@ [pc |-> "built", builder |-> b, built |-> TRUE]

(* the optimizer whose builder is not the one being followed *)
BuilderIdle == [pc |-> "idle", panic |-> "not built", builder |-> BuilderNew, built |-> FALSE]

BuilderInit ==
  /\ \/ ga = Constructing(BuilderNew, "") /\ hc = BuilderIdle
     \/ ga = BuilderIdle /\ hc = Constructing(BuilderNew, "")
  /\ bench = BenchIdle

GABuilderGenerator ==
  /\ ga.pc = "builder"
  /\ \E g \in BuilderGenerators :
        ga' = IF BuilderGenerator(ga.builder, g).ok
              THEN Constructing(BuilderGenerator(ga.builder, g).val, "")
              ELSE Constructing(ga.builder, BuilderGenerator(ga.builder, g).err)
  /\ UNCHANGED <<hc, bench>>

GABuilderTarget ==
  /\ ga.pc = "builder"
  /\ \E t \in BuilderTargets : ga' = Constructing(BuilderTarget(ga.builder, t), "")
  /\ UNCHANGED <<hc, bench>>

GABuilderBuilds ==
  /\ ga.pc = "builder"
  /\ \E n \in BuilderPopulations : \E mg \in 0..MaxGenerations :
       \E out \in GABuilderBuild(ga.builder, n, mg) :
          ga' = IF out.ok THEN Constructed(ga.builder, out.val)
                ELSE Constructing(ga.builder, out.err)
  /\ UNCHANGED <<hc, bench>>

HCBuilderGenerator ==
  /\ hc.pc = "builder"
  /\ \E g \in BuilderGenerators :
        hc' = IF BuilderGenerator(hc.builder, g).ok
              THEN Constructing(BuilderGenerator(hc.builder, g).val, "")
              ELSE Constructing(hc.builder, BuilderGenerator(hc.builder, g).err)
  /\ UNCHANGED <<ga, bench>>

HCBuilderTarget ==
  /\ hc.pc = "builder"
  /\ \E t \in BuilderTargets : hc' = Constructing(BuilderTarget(hc.builder, t), "")
  /\ UNCHANGED <<ga, bench>>

HCBuilderBuilds ==
  /\ hc.pc = "builder"
  /\ \E mi \in 0..MaxIterations : \E out \in HCBuilderBuild(hc.builder, mi) :
        hc' = IF out.ok THEN Constructed(hc.builder, out.val)
              ELSE Constructing(hc.builder, out.err)
  /\ UNCHANGED <<ga, bench>>

BuilderNext ==
  \/ GABuilderGenerator \/ GABuilderTarget \/ GABuilderBuilds
  \/ GARunStart \/ GARunStep \/ GARunReturn
  \/ HCBuilderGenerator \/ HCBuilderTarget \/ HCBuilderBuilds
  \/ HCRun \/ HCIterate \/ HCReturn

BuilderSpec == BuilderInit /\ [][BuilderNext]_vars

-----------------------------------------------------------------------------
(* Properties of the builders *)

(* the panics for a missing generator or a missing target *)
MissingMessages ==
  {"Expected a generator.", "Generator expected",
   "Expected a reference counter to the target signal.",
   "The generator should have a target set.",
   "Expected target in SubtractiveIndividualGenerator",
   "Expected target in AdditiveIndividualGenerator"}

C14_Optimizer(sim) ==
  /\ sim.built =>
        /\ sim.builder.generator.some /\ sim.builder.target.some
        /\ sim.builder.generator.val.target.some
        /\ sim.target = sim.builder.target.val
  /\ sim.panic \in MissingMessages => ~sim.built
  /\ (sim.pc = "builder" /\ sim.builder.generator.some)
        => sim.builder.target.some /\ sim.builder.generator.val.target.some

(* C14: for both builders, a sequence of builder calls that leaves the     *)
(* generator missing or no target available aborts no later than build():  *)
(* an optimizer that build() returned has a generator with a target and a  *)
(* target, and no panic for a missing generator or target happens once     *)
(* build() has returned.                                                   *)
C14_Theorem ==
  /\ C14_Optimizer(ga)
  /\ ga.built => ga.generator = ga.builder.generator.val
  /\ C14_Optimizer(hc)

C14_Witness ==
  /\ ga.built /\ ga.pc = "returned"
  /\ ga.initial_population = 2
  /\ ga.generation = 1 /\ Len(ga.population) = 1
  /\ ga.target # ga.generator.target.val

-----------------------------------------------------------------------------
(* evolve on the components: OscillatorComponent, HarmonicsComponent and   *)
(* FilterComponent, each evolved again and again from a created one        *)

(* OscillatorComponent::create, with the saw phase anywhere in its range *)
EvolveOscillators ==
  {[o EXCEPT !.saw_phase = p] : o \in OscCreate, p \in PhaseGrid \cup {600}}

EvolveInit ==
  /\ bench \in {[op |-> "create", kind |-> k[1], prev |-> k[2], self |-> k[2],
                 step |-> StepSize(0, 1)] :
                  k \in ({"oscillator"} \X EvolveOscillators)
                        \cup ({"harmonics"} \X HarmCreate)
                        \cup ({"filter"} \X UNION {FilterCreate(t) :
                                 t \in {"LowPass", "HighPass", "BandPass", "BandReject"}})}
  /\ ga = GAIdle
  /\ hc = HCIdle

(* the component's evolve and whether its gen_range panics *)
ComponentEvolvePanics(kind, c, step) ==
  IF kind = "oscillator" THEN OscEvolvePanics(c, step)
  ELSE IF kind = "harmonics" THEN HarmEvolvePanics(c, step)
  ELSE FilterEvolvePanics(c, step)

ComponentEvolve(kind, c, step) ==
  IF kind = "oscillator" THEN OscEvolve(c, step)
  ELSE IF kind = "harmonics" THEN HarmEvolve(c, step)
  ELSE FilterEvolve(c, step)

(* self = self.evolve(step_size) *)
ComponentEvolves ==
  /\ \E step \in BenchSteps :
        IF ComponentEvolvePanics(bench.kind, bench.self, step)
        THEN bench' = [bench EXCEPT !.op = "evolve panicked", !.step = step]
        ELSE \E c \in ComponentEvolve(bench.kind, bench.self, step) :
                bench' = [bench EXCEPT !.op = "evolve", !.prev = bench.self,
                                       !.self = c, !.step = step]
  /\ UNCHANGED <<ga, hc>>

EvolveNext == ComponentEvolves

EvolveSpec == EvolveInit /\ [][EvolveNext]_vars

(* new is in [min_v, max_v] and within step * (max_v - min_v) / 2 of old *)
MovedWithin(new, old, min_v, max_v, step) ==
  /\ min_v <= new /\ new <= max_v
  /\ AbsDiff(new, old) * 2 * step.den <= (max_v - min_v) * step.num

Evolved == bench.op = "evolve"

C21_Oscillator(new, old, step) ==
  /\ MovedWithin(new.freq, old.freq, OSC_MIN_FREQ, OSC_MAX_FREQ, step)
  /\ MovedWithin(new.sine_amp, old.sine_amp, MIN_AMP, MAX_AMP, step)
  /\ MovedWithin(new.sine_phase, old.sine_phase, MIN_PHASE, MAX_PHASE, step)
  /\ MovedWithin(new.square_amp, old.square_amp, MIN_AMP, MAX_AMP, step)
  /\ MovedWithin(new.square_phase, old.square_phase, MIN_PHASE, MAX_PHASE, step)
  /\ MovedWithin(new.saw_amp, old.saw_amp, MIN_AMP, MAX_AMP, step)
  /\ MovedWithin(new.saw_phase, old.saw_phase, MIN_PHASE, MAX_PHASE, step)

C21_Harmonics(new, old, step) ==
  /\ MovedWithin(new.freq, old.freq, HARM_MIN_FREQ, HARM_MAX_FREQ, step)
  /\ Len(new.amplitudes) = Len(old.amplitudes)
  /\ \A i \in 1..Len(new.amplitudes) :
        MovedWithin(new.amplitudes[i], old.amplitudes[i], MIN_AMP, MAX_AMP, step)

C21_Filter(new, old, step) ==
  /\ new.type = old.type
  /\ MovedWithin(new.band, old.band, MIN_BAND, MAX_BAND, step)
  /\ IF IsBand(new)
     THEN /\ MovedWithin(new.low_freq, old.low_freq, FILTER_MIN_FREQ, FILTER_MAX_FREQ, step)
          /\ MovedWithin(new.high_freq, old.high_freq, FILTER_MIN_FREQ, FILTER_MAX_FREQ, step)
     ELSE MovedWithin(new.cutoff_freq, old.cutoff_freq, FILTER_MIN_FREQ, FILTER_MAX_FREQ, step)

(* C21: evolve(stepSize) moves every parameter of a component to a value   *)
(* within the parameter's legal range and within stepSize*(max-min)/2 of   *)
(* that same parameter's current value; for the oscillator each of freq,   *)
(* sine_amp, sine_phase, square_amp, square_phase, saw_amp and saw_phase   *)
(* is drawn from a window around its own previous value.                   *)
C21_EvolveWithinStep ==
  Evolved =>
     IF bench.kind = "oscillator" THEN C21_Oscillator(bench.self, bench.prev, bench.step)
     ELSE IF bench.kind = "harmonics" THEN C21_Harmonics(bench.self, bench.prev, bench.step)
     ELSE C21_Filter(bench.self, bench.prev, bench.step)

(* an oscillator whose saw phase left the window around its previous value *)
(* for one around the saw amplitude                                        *)
C21_Witness ==
  /\ Evolved /\ bench.kind = "oscillator"
  /\ ~MovedWithin(bench.self.saw_phase, bench.prev.saw_phase, MIN_PHASE, MAX_PHASE, bench.step)
  /\ MovedWithin(bench.self.saw_phase, bench.prev.saw_amp, MIN_PHASE, MAX_PHASE, bench.step)

-----------------------------------------------------------------------------
(* Properties of evolve in a hill-climbing run *)

CarriesEnvelope(sim) ==
  sim.current_individual.some /\ sim.current_individual.val.envelope.some

(* C22: evolve is defined for every component kind, so a hill-climbing     *)
(* step on a Subtractive individual that carries an envelope proposes a    *)
(* candidate instead of aborting the run.                                  *)
C22_EnvelopeEvolves ==
  (hc.panic # "not built" /\ CarriesEnvelope(hc)) => hc.pc # "panicked"

(* the first iteration of a run on an individual with an envelope: evolve  *)
(* panicked, no candidate was proposed                                     *)
C22_Witness ==
  /\ hc.panic # "not built" /\ CarriesEnvelope(hc)
  /\ hc.pc = "panicked"
  /\ hc.iteration = 0 /\ ~hc.candidate.some
  /\ ~StepLt(hc.step_size, hc.min_step_size)
  /\ EnvEvolvePanics(hc.current_individual.val.envelope.val, hc.step_size)

-----------------------------------------------------------------------------
(* Properties of the hill climber's telemetry *)

C23_Count ==
  (hc.panic # "not built" /\ hc.pc \in {"running", "returned"} /\ hc.csv_export) =>
     /\ Len(hc.records) = hc.iteration - hc.started_at
     /\ \A k \in 1..Len(hc.records) : hc.records[k].iteration = hc.started_at + k - 1

C23_Step ==
  (HCIterated /\ hc.csv_export) =>
     hc'.records =
        Append(hc.records,
               [iteration |-> hc.iteration,
                fitness |-> Fitness(hc.current_individual.val),
                fundamental |-> IF GetFundamental(hc.current_individual.val).some
                                THEN GetFundamental(hc.current_individual.val).val
                                ELSE 0])

(* C23: with telemetry export configured, a run emits exactly one record   *)
(* per executed iteration, taken before the iteration's candidate is       *)
(* evaluated: the records carry the successive iteration indices and the   *)
(* fitness and fundamental of the current individual at the start of       *)
(* their iteration, and there are as many as iterations executed.          *)
C23_Theorem == []C23_Count /\ [][C23_Step]_vars

(* a returned run of three iterations whose second record is that of the   *)
(* individual accepted in the first iteration                              *)
C23_Witness ==
  /\ hc.panic # "not built" /\ hc.pc = "returned" /\ hc.csv_export
  /\ hc.started_at = 0
  /\ hc.iteration >= 3
  /\ Len(hc.records) = hc.iteration
  /\ hc.records[1].fitness < hc.records[2].fitness
  /\ hc.records[Len(hc.records)].iteration = hc.iteration - 1

-----------------------------------------------------------------------------
(* Termination of run().  The loop of run() goes on by itself: a pass that *)
(* can be taken is taken.                                                  *)

BuilderFairSpec ==
  BuilderSpec /\ WF_vars(GARunStep \/ GARunReturn) /\ WF_vars(HCIterate \/ HCReturn)

(* C24: every GA run terminates with generation = max_generations when     *)
(* started with generation <= max_generations, and every hill-climbing run *)
(* terminates after at most max_iterations iterations: each pass of the    *)
(* loop raises the counter by exactly 1 and nothing else keeps the loop    *)
(* running.                                                                *)
C24_Terminates ==
  /\ (ga.built /\ ga.pc = "running" /\ ga.generation <= ga.max_generations)
        ~> (ga.built /\ ga.pc = "returned" /\ ga.generation = ga.max_generations)
  /\ (hc.built /\ hc.pc = "running")
        ~> (hc.built /\ hc.pc \in {"returned", "panicked"}
                     /\ hc.iteration <= hc.max_iterations)

(* a run that ended before max_generations: next() found no fittest *)
C24_Witness ==
  /\ ga.built
  /\ ga.pc = "panicked"
  /\ ga.generation < ga.max_generations
  /\ ga.population = <<>>
  /\ ga.panic = "There should be a fittest individual in the population"

-----------------------------------------------------------------------------
(* Elitism of the genetic algorithm                                        *)

(* a is at least as fit as b *)
AtLeastAsFit(a, b) == a = b \/ FloatGt(a, b)

(* the survivor count of the step taken from sim: n_selected of next() *)
StepSurvivors(sim) ==
  IF sim.population_evolution = "Constant"
  THEN sim.initial_population \div 2
  ELSE (Len(sim.population) + sim.n_random_additions) \div 2

(* one pass of run()'s loop that next() completed *)
C25_Stepped ==
  /\ ga.pc = "running"
  /\ ga'.pc = "running"
  /\ ga'.generation = ga.generation + 1

C25_Step ==
  (C25_Stepped /\ StepSurvivors(ga) >= 1 /\ ga.population # <<>>)
     => /\ ga'.population # <<>>
        /\ \A i \in 1..Len(ga.population) :
              AtLeastAsFit(Fitness(ga'.population[1]), Fitness(ga.population[i]))

(* the fittest of every population the run has seen, oldest first *)
C25_BestSoFar ==
  (ga.pc \in {"running", "returned"} /\ ga.csv_export)
     => /\ \A i \in 1..Len(ga.records) : \A j \in i..Len(ga.records) :
              AtLeastAsFit(ga.records[j].max_fitness, ga.records[i].max_fitness)
        /\ ga.records # <<>> =>
              AtLeastAsFit(Fitness(ga.population[1]), ga.records[1].max_fitness)

(* C25: elitism: whenever the survivor count of a step is at least 1, the  *)
(* fitness of population[0] after the step is >= its value before it (and  *)
(* >= that of every individual the step started from), so the best fitness *)
(* never decreases over the generations of a run and the individual run()  *)
(* returns is at least as fit as the fittest the run started from.         *)
C25_Theorem == [][C25_Step]_vars /\ []C25_BestSoFar

(* a run that returned after a step in which the best fitness rose *)
C25_Witness ==
  /\ ga.pc = "returned"
  /\ ga.csv_export
  /\ Len(ga.records) >= 2
  /\ StepSurvivors(ga) >= 1
  /\ FloatGt(Fitness(ga.population[1]), ga.records[1].max_fitness)

-----------------------------------------------------------------------------
(* The population is never empty                                           *)

FittestLookupPanics ==
  {"There should be a fittest individual in the population",
   "There should be a fittest individual in the population."}

(* C26: for every configuration the population is non-empty after build()  *)
(* and after every step, and the survivor slice never exceeds the pool, so *)
(* the fittest-individual lookups of next() and run() never abort.         *)
C26_NeverEmpty ==
  /\ ga.panic = "" => ga.population # <<>>
  /\ ga.panic \notin FittestLookupPanics
  /\ ga.panic # "range end index out of range"

(* a simulation built with one individual, whose first step kept no        *)
(* survivor and found no fittest individual                                *)
C26_Witness ==
  /\ ga.pc = "panicked"
  /\ ga.initial_population = 1
  /\ ga.generation = 0
  /\ ga.population = <<>>
  /\ ga.panic \in FittestLookupPanics

-----------------------------------------------------------------------------
(* The hill climber never goes downhill                                    *)

(* an iteration whose candidate was accepted: the failure count is reset *)
C27_Accepted == HCIterated /\ hc'.unsuccessful_iters = 0

C27_Step ==
  /\ HCIterated =>
        AtLeastAsFit(Fitness(hc'.current_individual.val),
                     Fitness(hc.current_individual.val))
  /\ C27_Accepted =>
        FloatGt(Fitness(hc'.current_individual.val),
                Fitness(hc.current_individual.val))

(* the fitness recorded at the iterations of the run, oldest first, and    *)
(* the fitness of the individual that run() returned                       *)
C27_Run ==
  (hc.panic # "not built" /\ hc.pc \in {"running", "returned"} /\ hc.csv_export) =>
     /\ \A i \in 1..Len(hc.records) : \A j \in i..Len(hc.records) :
           AtLeastAsFit(hc.records[j].fitness, hc.records[i].fitness)
     /\ \A i \in 1..Len(hc.records) :
           AtLeastAsFit(Fitness(hc.current_individual.val), hc.records[i].fitness)
     /\ hc.pc = "returned" =>
           /\ hc.result.val.ok
           /\ hc.result.val.val = hc.current_individual.val

(* C27: during a hill-climbing run the fitness of current_individual never *)
(* decreases from one iteration to the next and is strictly greater after  *)
(* every accepted move; the individual run() returns has a fitness >= that *)
(* of the individual created at build().                                   *)
C27_Theorem == [][C27_Step]_vars /\ []C27_Run

(* a first run that returned an individual fitter than the built one *)
C27_Witness ==
  /\ hc.panic # "not built" /\ hc.pc = "returned" /\ hc.csv_export
  /\ hc.started_at = 0
  /\ Len(hc.records) >= 2
  /\ hc.result.val.ok
  /\ FloatGt(Fitness(hc.result.val.val), hc.records[1].fitness)

-----------------------------------------------------------------------------
(* The step size of a run                                                  *)

(* the run in progress, or just returned, has executed an iteration *)
HasIterated(sim) == sim.iteration > sim.started_at

-----------------------------------------------------------------------------
(* run() called again                                                      *)

(* run() has returned at least once: its result is kept *)
HasReturned(sim) == sim.panic # "not built" /\ sim.result.some

(* C29: the terminated state of a hill-climbing simulation is absorbing:   *)
(* after run() has returned for any of the three terminal reasons, calling *)
(* run() again executes no further iteration and leaves iteration and      *)
(* current_individual unchanged.                                           *)
C29_Absorbing ==
  [][HasReturned(hc) =>
        /\ hc'.iteration = hc.iteration
        /\ hc'.current_individual = hc.current_individual]_vars

(* a second run() that iterated and returned another individual than the   *)
(* first                                                                   *)
C29_Witness ==
  /\ HasReturned(hc)
  /\ hc.pc = "running"
  /\ hc.started_at > 0
  /\ hc.iteration > hc.started_at
  /\ hc.iteration <= hc.max_iterations
  /\ hc.result.val.ok
  /\ hc.current_individual.val # hc.result.val.val

-----------------------------------------------------------------------------
(* The target of the built optimizer                                       *)

(* C30: for every order of builder calls, the target stored in the built   *)
(* optimizer equals the target of the generator, the one against which the *)
(* fitness of every individual is computed; target(signal) before or after *)
(* generator(g) never makes the two differ.                                *)
C30_SameTarget ==
  /\ ga.built =>
        /\ ga.target = ga.generator.target.val
        /\ \A i \in 1..Len(ga.population) : ga.population[i].target = ga.target
  /\ hc.built =>
        /\ hc.target = hc.builder.generator.val.target.val
        /\ hc.current_individual.val.target = hc.target

(* a hill climber built after generator(g) then target(signal): it stores  *)
(* the signal, its individual is measured against the generator's target   *)
C30_Witness ==
  /\ hc.built
  /\ hc.pc = "returned"
  /\ hc.builder.target = Some(hc.target)
  /\ hc.builder.generator.val.target.some
  /\ hc.current_individual.val.target = hc.builder.generator.val.target.val
  /\ hc.target # hc.current_individual.val.target

====
